---- MODULE Spec2Model ----
(***************************************************************************)
(* Agent / Task / LearningSession core of the AI agent system:             *)
(*   - SqlxAgentRepository (interface/repositories/sqlx_repository.rs)     *)
(*     over a PostgreSQL pool: multi-statement units of work and the       *)
(*     four-query read find_by_id;                                         *)
(*   - TaskManagementUseCase and LearningManagementUseCase                 *)
(*     (usecase/*.rs) composed with the domain services wired in main.rs.  *)
(***************************************************************************)
EXTENDS Integers, Sequences, FiniteSets, TLC

VARIABLES
    db,         \* committed rows of the four agent tables
    tx,         \* per worker: rows written by its open transaction
    pc,         \* per worker: position inside the repository call
    op,         \* per worker: the repository call and its argument
    loc,        \* per worker: rows find_by_id has fetched so far
    result,     \* per worker: value returned by the last finished call
    hist,       \* per agent id: the committed versions, in commit order
    seen,       \* per worker: version index each query of find_by_id read
    started,    \* number of repository calls started
    clock,      \* the last reading of chrono::Utc::now()
    from_impl   \* which From<sqlx::Error> for Error the build uses

repoVars == <<db, tx, pc, op, loc, result, hist, seen, started, clock, from_impl>>

(* TaskManagementUseCase over its TaskRepository and TaskManagementService. *)
VARIABLES
    task_repo,  \* which TaskRepository the use case was constructed with
    tasks,      \* rows of the stored TaskRepository
    tpc,        \* per request: the await the use-case method stands at
    top,        \* per request: the method and its arguments
    tloc,       \* per request: the method's local `task` / `*_task`
    tres,       \* per request: the Result the method returned
    ttrace,     \* per request: the collaborator calls the method has made
    tcalls      \* use-case methods called so far

taskVars == <<task_repo, tasks, tpc, top, tloc, tres, ttrace, tcalls>>

(* LearningManagementUseCase over its LearningSessionRepository and       *)
(* LearningManagementService.                                              *)
VARIABLES
    learning_repo,  \* which LearningSessionRepository the use case was constructed with
    sessions,       \* rows of the stored LearningSessionRepository
    lpc,            \* per request: the await the use-case method stands at
    lop,            \* per request: the method and its arguments
    lloc,           \* per request: the method's local session
    lres,           \* per request: the Result the method returned
    ltrace,         \* per request: the collaborator calls the method has made
    lcalls          \* use-case methods called so far

learnVars == <<learning_repo, sessions, lpc, lop, lloc, lres, ltrace, lcalls>>

(* AgentManagementUseCase over its AgentRepository and                    *)
(* AgentManagementService.                                                 *)
VARIABLES
    agent_repo, \* which AgentRepository the use case was constructed with
    services,   \* which domain services the use cases were constructed with
    apc,        \* per request: the await the use-case method stands at
    aop,        \* per request: the method and its arguments
    aloc,       \* per request: the method's local `agent` / `updated_agent`
    ares,       \* per request: the Result the method returned
    atrace,     \* per request: the collaborator calls the method has made
    acalls      \* use-case methods called so far

agentVars == <<agent_repo, services, apc, aop, aloc, ares, atrace, acalls>>

vars == <<repoVars, taskVars, learnVars, agentVars>>

----------------------------------------------------------------------------
(* Bounds of the model. *)

MaxOps == 2
MaxTaskCalls == 3
MaxLearningCalls == 3
MaxAgentCalls == 2

----------------------------------------------------------------------------
(* Option<T>: None is the empty tuple, Some(x) the one-element tuple. *)

None == <<>>
Some(x) == <<x>>
IsSome(o) == o # <<>>
Unwrap(o) == o[1]

EmptyMap == <<>>
Range(f) == {f[x] : x \in DOMAIN f}

----------------------------------------------------------------------------
(* Domain entities (domain/entities.rs). *)

AgentIds == {"a1", "a2"}
AgentNames == {"n1", "n2"}
Workers == {"w1", "w2"}

AgentStatus == {"Active", "Inactive", "Training", "Error", "Maintenance"}
AgentTypeUnit == {"Conversational", "TaskExecutor", "Learning", "Monitoring", "Orchestrator"}

Capability(n, v, p) ==
    [name |-> n, description |-> "capability", version |-> v, parameters |-> p]

CapA == Capability("A", "1.0", ("p" :> "x"))
CapB == Capability("B", "1.0", EmptyMap)

AgentConfiguration(model) ==
    [model_config |-> [model_name |-> model, context_window |-> 1000],
     execution_config |-> [max_concurrent_tasks |-> 10, timeout_seconds |-> 30],
     security_config |-> [api_key_required |-> FALSE, encryption_enabled |-> FALSE]]

(* The aggregate values callers hand to create and update. *)
Templates ==
    { [status |-> "Active", agent_type |-> [variant |-> "Conversational"],
       capabilities |-> <<CapA, CapB>>,
       configuration |-> AgentConfiguration("m1"),
       metadata |-> ("k1" :> "v1")],
      [status |-> "Inactive", agent_type |-> [variant |-> "Custom", value |-> "x"],
       capabilities |-> <<CapA>>,
       configuration |-> AgentConfiguration("m2"),
       metadata |-> EmptyMap],
      [status |-> "Active", agent_type |-> [variant |-> "Conversational"],
       capabilities |-> <<>>,
       configuration |-> AgentConfiguration("m1"),
       metadata |-> ("k1" :> "v2" @@ "k2" :> "v1")] }

(* A Vec<Capability> may name one capability twice; create is also handed *)
(* such an aggregate.                                                     *)
DuplicateCapabilities ==
    [status |-> "Active", agent_type |-> [variant |-> "Conversational"],
     capabilities |-> <<CapA, CapA>>,
     configuration |-> AgentConfiguration("m1"),
     metadata |-> ("k1" :> "v1")]

CreateTemplates == Templates \cup {DuplicateCapabilities}

Agent(id, name, t, now) ==
    [id |-> id, name |-> name, description |-> "description",
     agent_type |-> t.agent_type, status |-> t.status,
     capabilities |-> t.capabilities, configuration |-> t.configuration,
     metadata |-> t.metadata, created_at |-> now, updated_at |-> now]

CapNames == {"A", "B"}
MetaKeys == {"k1", "k2"}

----------------------------------------------------------------------------
(* serde_json::to_value / from_value for the column types. *)

JString(s) == [json |-> "String", v |-> s]
JObject(m) == [json |-> "Object", v |-> m]

AgentStatusToValue(s) == JString(s)

AgentStatusFromValue(j) ==
    IF j.json = "String" /\ j.v \in AgentStatus
    THEN [ok |-> TRUE, v |-> j.v] ELSE [ok |-> FALSE]

AgentTypeToValue(t) ==
    IF t.variant = "Custom" THEN JObject("Custom" :> t.value) ELSE JString(t.variant)

AgentTypeFromValue(j) ==
    IF j.json = "String" /\ j.v \in AgentTypeUnit
    THEN [ok |-> TRUE, v |-> [variant |-> j.v]]
    ELSE IF j.json = "Object" /\ DOMAIN j.v = {"Custom"}
    THEN [ok |-> TRUE, v |-> [variant |-> "Custom", value |-> j.v["Custom"]]]
    ELSE [ok |-> FALSE]

ParametersToValue(p) == JObject(p)

(* serde_json::from_value(parameters).unwrap_or_default() *)
ParametersFromValue(j) == IF j.json = "Object" THEN j.v ELSE EmptyMap

StructToValue(s) == JObject(s)

StructFromValue(j) ==
    IF j.json = "Object" THEN [ok |-> TRUE, v |-> j.v] ELSE [ok |-> FALSE]

----------------------------------------------------------------------------
(* The relational store.  Tables are functions from primary key to         *)
(* Option<row>.  A transaction's uncommitted writes live in tx[w], one     *)
(* partial function per table; a key in DOMAIN tx[w][t] is a row the       *)
(* transaction has written and holds locked until it ends.  Statements of  *)
(* other sessions see only db (READ COMMITTED).                            *)

Tables == {"agents", "agent_capabilities", "agent_configurations", "agent_metadata"}

CapKeys == AgentIds \X CapNames
MetaTableKeys == AgentIds \X MetaKeys

EmptyDb ==
    [agents |-> [i \in AgentIds |-> None],
     agent_capabilities |-> [k \in CapKeys |-> None],
     agent_configurations |-> [i \in AgentIds |-> None],
     agent_metadata |-> [k \in MetaTableKeys |-> None]]

EmptyTx ==
    [agents |-> <<>>, agent_capabilities |-> <<>>,
     agent_configurations |-> <<>>, agent_metadata |-> <<>>]

(* A schema whose child tables have no key. *)
SchemaWithoutChildKey ==
    [agents_name_key |-> TRUE, child_pkey |-> FALSE, child_fkey |-> TRUE]

(* A schema whose child tables do not reference agents. *)
SchemaWithoutForeignKey ==
    [agents_name_key |-> TRUE, child_pkey |-> TRUE, child_fkey |-> FALSE]

(* Constraints of the schema the queries are compiled against. *)
Schema ==
    [agents_name_key |-> TRUE,      \* UNIQUE (name)
     child_pkey |-> TRUE,           \* (agent_id, name) / (agent_id) / (agent_id, key)
     child_fkey |-> TRUE]           \* agent_id REFERENCES agents (id)

StmtOk(o) == [st |-> "ok", tx |-> o]
StmtBlocked == [st |-> "blocked"]
StmtErr(code, constraint) == [st |-> "err", code |-> code, constraint |-> constraint]

Own(o, t, k) == k \in DOMAIN o[t]
HeldByOther(w, t, k) == \E v \in Workers \ {w} : k \in DOMAIN tx[v][t]
Vis(o, t, k) == IF Own(o, t, k) THEN o[t][k] ELSE db[t][k]
Put(o, t, k, v) == [o EXCEPT ![t] = (k :> v) @@ @]

(* A committed row another open transaction is rewriting or deleting. *)
LockedByOther(w, o, t, k) ==
    ~Own(o, t, k) /\ IsSome(db[t][k]) /\ HeldByOther(w, t, k)

(* The foreign-key check of a child INSERT reads its agents row FOR KEY    *)
(* SHARE: it waits for a transaction that deletes the row or changes a     *)
(* key column of it (name, under the unique index), not for one that       *)
(* rewrites the other columns.                                             *)
KeyLockedByOther(w, o, id) ==
    /\ ~Own(o, "agents", id)
    /\ IsSome(db.agents[id])
    /\ \E v \in Workers \ {w} :
        /\ id \in DOMAIN tx[v].agents
        /\ \/ ~IsSome(tx[v].agents[id])
           \/ /\ Schema.agents_name_key
              /\ Unwrap(tx[v].agents[id]).name # Unwrap(db.agents[id]).name

(* Another agent's row visibly carries the name. *)
NameTaken(w, o, id, n) ==
    \E j \in AgentIds \ {id} :
        /\ ~HeldByOther(w, "agents", j)
        /\ IsSome(Vis(o, "agents", j))
        /\ Unwrap(Vis(o, "agents", j)).name = n

(* A row carrying the name (before or after) is in flight in another transaction. *)
NameInFlight(w, id, n) ==
    \E j \in AgentIds \ {id} : \E v \in Workers \ {w} :
        /\ j \in DOMAIN tx[v].agents
        /\ \/ IsSome(db.agents[j]) /\ Unwrap(db.agents[j]).name = n
           \/ IsSome(tx[v].agents[j]) /\ Unwrap(tx[v].agents[j]).name = n

NameCheck(w, o, id, n, then) ==
    IF ~Schema.agents_name_key THEN then
    ELSE IF NameTaken(w, o, id, n) THEN StmtErr("23505", "agents_name_key")
    ELSE IF NameInFlight(w, id, n) THEN StmtBlocked
    ELSE then

AgentRow(a) ==
    [id |-> a.id, name |-> a.name, description |-> a.description,
     agent_type |-> AgentTypeToValue(a.agent_type),
     status |-> AgentStatusToValue(a.status),
     created_at |-> a.created_at, updated_at |-> a.updated_at]

CapabilityRow(c) ==
    [name |-> c.name, description |-> c.description, version |-> c.version,
     parameters |-> ParametersToValue(c.parameters)]

ConfigurationRow(a) ==
    [model_config |-> StructToValue(a.configuration.model_config),
     execution_config |-> StructToValue(a.configuration.execution_config),
     security_config |-> StructToValue(a.configuration.security_config)]

(* INSERT INTO agents ... *)
InsertAgent(w, o, a) ==
    IF HeldByOther(w, "agents", a.id) THEN StmtBlocked
    ELSE IF IsSome(Vis(o, "agents", a.id)) THEN StmtErr("23505", "agents_pkey")
    ELSE NameCheck(w, o, a.id, a.name, StmtOk(Put(o, "agents", a.id, Some(AgentRow(a)))))

(* UPDATE agents SET name, description, agent_type, status, updated_at WHERE id *)
UpdateAgent(w, o, a, now) ==
    IF LockedByOther(w, o, "agents", a.id) THEN StmtBlocked
    ELSE IF ~IsSome(Vis(o, "agents", a.id)) THEN StmtOk(o)
    ELSE NameCheck(w, o, a.id, a.name,
            StmtOk(Put(o, "agents", a.id,
                Some([Unwrap(Vis(o, "agents", a.id)) EXCEPT
                        !.name = a.name, !.description = a.description,
                        !.agent_type = AgentTypeToValue(a.agent_type),
                        !.status = AgentStatusToValue(a.status),
                        !.updated_at = now]))))

(* INSERT of one child row: primary key, then the foreign key to agents. *)
InsertChild(w, o, t, k, row, id) ==
    IF Schema.child_pkey /\ ~Own(o, t, k) /\ HeldByOther(w, t, k) THEN StmtBlocked
    ELSE IF Schema.child_pkey /\ IsSome(Vis(o, t, k)) THEN StmtErr("23505", t)
    ELSE IF Schema.child_fkey /\ KeyLockedByOther(w, o, id) THEN StmtBlocked
    ELSE IF Schema.child_fkey /\ ~IsSome(Vis(o, "agents", id)) THEN StmtErr("23503", t)
    ELSE StmtOk(Put(o, t, k, Some(row)))

(* DELETE FROM t WHERE agent_id = id, over the keys of that agent. *)
DeleteRows(w, o, t, keys) ==
    LET hit == {k \in keys : IsSome(Vis(o, t, k))} IN
    IF \E k \in hit : LockedByOther(w, o, t, k) THEN StmtBlocked
    ELSE StmtOk([o EXCEPT ![t] = [k \in hit |-> None] @@ @])

CapKeysOf(id) == {<<id, n>> : n \in CapNames}
MetaKeysOf(id) == {<<id, k>> : k \in MetaKeys}

(* for capability in &agent.capabilities { INSERT INTO agent_capabilities } *)
RECURSIVE InsertCapabilities(_, _, _, _)
InsertCapabilities(w, o, a, i) ==
    IF i > Len(a.capabilities) THEN StmtOk(o)
    ELSE LET c == a.capabilities[i]
             r == InsertChild(w, o, "agent_capabilities", <<a.id, c.name>>,
                              CapabilityRow(c), a.id)
         IN IF r.st = "ok" THEN InsertCapabilities(w, r.tx, a, i + 1) ELSE r

(* for (key, value) in &agent.metadata { INSERT INTO agent_metadata } *)
RECURSIVE InsertMetadata(_, _, _, _)
InsertMetadata(w, o, a, keys) ==
    IF keys = {} THEN StmtOk(o)
    ELSE LET k == CHOOSE x \in keys : TRUE
             r == InsertChild(w, o, "agent_metadata", <<a.id, k>>,
                              [key |-> k, value |-> a.metadata[k]], a.id)
         IN IF r.st = "ok" THEN InsertMetadata(w, r.tx, a, keys \ {k}) ELSE r

(* INSERT INTO agent_configurations ... *)
InsertConfiguration(w, o, a) ==
    InsertChild(w, o, "agent_configurations", a.id, ConfigurationRow(a), a.id)

(* UPDATE agent_configurations SET ... WHERE agent_id *)
UpdateConfiguration(w, o, a) ==
    IF LockedByOther(w, o, "agent_configurations", a.id) THEN StmtBlocked
    ELSE IF ~IsSome(Vis(o, "agent_configurations", a.id)) THEN StmtOk(o)
    ELSE StmtOk(Put(o, "agent_configurations", a.id, Some(ConfigurationRow(a))))

DeleteAgentRequiringRow(w, o, id) ==
    IF LockedByOther(w, o, "agents", id) THEN StmtBlocked
    ELSE IF ~IsSome(Vis(o, "agents", id)) THEN StmtErr("02000", "agents")
    ELSE StmtOk(Put(o, "agents", id, None))

(* DELETE FROM agents WHERE id (rows still referencing it violate the key). *)
DeleteAgent(w, o, id) ==
    IF LockedByOther(w, o, "agents", id) THEN StmtBlocked
    ELSE IF ~IsSome(Vis(o, "agents", id)) THEN StmtOk(o)
    ELSE IF Schema.child_fkey /\
            \/ \E k \in CapKeysOf(id) : IsSome(Vis(o, "agent_capabilities", k))
            \/ IsSome(Vis(o, "agent_configurations", id))
            \/ \E k \in MetaKeysOf(id) : IsSome(Vis(o, "agent_metadata", k))
    THEN StmtErr("23503", "agents")
    ELSE StmtOk(Put(o, "agents", id, None))

(* tx.commit(): the transaction's rows replace the committed ones. *)
Committed(o) ==
    [t \in Tables |-> [k \in DOMAIN db[t] |-> IF Own(o, t, k) THEN o[t][k] ELSE db[t][k]]]

----------------------------------------------------------------------------
(* Error conversion: impl From<SqlxError> for Error (sqlx_repository.rs)   *)
(* and the conversion #[from] derives on Error::DatabaseError (error.rs).  *)
(* Both implement the same trait for the same pair of types; the `?` of    *)
(* the repository uses whichever one the build keeps.                      *)

SqlxDatabase(code, constraint, peer) ==
    [sqlx |-> "Database", code |-> code, constraint |-> constraint, peer |-> peer]
NoPeer == [kind |-> "none", id |-> "none", call |-> 0]
SqlxRowNotFound == [sqlx |-> "RowNotFound"]

ManualFrom(e) ==
    IF e.sqlx = "RowNotFound" THEN [kind |-> "NotFound", msg |-> "Row not found"]
    ELSE IF e.sqlx = "Database" /\ e.code = "23505"
    THEN [kind |-> "Conflict", msg |-> "Unique constraint violation"]
    ELSE IF e.sqlx = "Database" /\ e.code = "23503"
    THEN [kind |-> "Conflict", msg |-> "Foreign key constraint violation"]
    ELSE [kind |-> "DatabaseError", source |-> e]

DeriveFrom(e) == [kind |-> "DatabaseError", source |-> e]

FromImpls == {"manual", "derive"}

ErrorFrom(e) == IF from_impl = "manual" THEN ManualFrom(e) ELSE DeriveFrom(e)

Ok(v) == [ok |-> TRUE, v |-> v]
Err(e, cause) == [ok |-> FALSE, err |-> e, cause |-> cause]
NoResult == [ok |-> TRUE, v |-> "none"]

(* The domain services of a deployment: the mocks of main.rs, or services  *)
(* whose validation call accepts some inputs and rejects others.           *)
Services == {"mock", "validating"}
ValidatingService_validate(input) == BOOLEAN

----------------------------------------------------------------------------
(* The statements each repository method issues, in order. *)

CreateStatementsWithoutMetadata == <<"insert_agent", "insert_capabilities",
                                     "insert_configuration", "commit">>
CreateStatements == <<"insert_agent", "insert_capabilities", "insert_configuration",
                      "insert_metadata", "commit">>

UpdateStatementsWithoutDelete ==
    <<"update_agent", "insert_capabilities", "update_configuration",
      "insert_metadata", "commit">>
UpdateStatementsKeepingCapabilities ==
    <<"update_agent", "insert_capabilities", "update_configuration",
      "delete_metadata", "insert_metadata", "commit">>
UpdateStatements == <<"update_agent", "delete_capabilities", "insert_capabilities",
                      "update_configuration", "delete_metadata", "insert_metadata",
                      "commit">>

DeleteStatementsRootFirst == <<"delete_agent", "delete_metadata", "delete_capabilities",
                               "delete_configuration", "commit">>
DeleteStatements == <<"delete_metadata", "delete_capabilities", "delete_configuration",
                      "delete_agent", "commit">>

FindQueriesCapabilitiesFirst == <<"select_capabilities", "select_agent",
                                  "select_configuration", "select_metadata">>
FindQueries == <<"select_agent", "select_capabilities", "select_configuration",
                 "select_metadata">>

Program(o) ==
    CASE o.kind = "create" -> CreateStatements
      [] o.kind = "update" -> UpdateStatements
      [] o.kind = "delete" -> DeleteStatements
      [] o.kind = "find_by_id" -> FindQueries
      [] OTHER -> <<>>

Running(w) == pc[w] \in 1..Len(Program(op[w]))
Cur(w) == Program(op[w])[pc[w]]

(* Outcome of the statement worker w is about to issue. *)
Stmt(w, now) ==
    LET o == tx[w]
        a == op[w].agent
        id == op[w].id
        s == Cur(w)
    IN CASE s = "insert_agent" -> InsertAgent(w, o, a)
         [] s = "update_agent" -> UpdateAgent(w, o, a, now)
         [] s = "delete_agent" -> DeleteAgent(w, o, id)
         [] s = "insert_capabilities" -> InsertCapabilities(w, o, a, 1)
         [] s = "delete_capabilities" ->
                DeleteRows(w, o, "agent_capabilities", CapKeysOf(id))
         [] s = "insert_configuration" -> InsertConfiguration(w, o, a)
         [] s = "update_configuration" -> UpdateConfiguration(w, o, a)
         [] s = "delete_configuration" ->
                DeleteRows(w, o, "agent_configurations", {id})
         [] s = "insert_metadata" -> InsertMetadata(w, o, a, DOMAIN a.metadata)
         [] s = "delete_metadata" ->
                DeleteRows(w, o, "agent_metadata", MetaKeysOf(id))

InUnitOfWork(w) ==
    Running(w) /\ op[w].kind \in {"create", "update", "delete"} /\ Cur(w) # "commit"

(* Methods whose statements run on `&mut *tx` of self.pool.begin(). *)
TransactionalOnlyCreate(kind) == kind = "create"
TransactionalNotCreate(kind) == kind \in {"update", "delete"}
TransactionalNotUpdate(kind) == kind \in {"create", "delete"}
Transactional(kind) == kind \in {"create", "update", "delete"}

----------------------------------------------------------------------------
(* Committed versions of one aggregate. *)

Slice(d, id) ==
    [root |-> d.agents[id],
     caps |-> {Unwrap(d.agent_capabilities[k]) :
                 k \in {x \in CapKeysOf(id) : IsSome(d.agent_capabilities[x])}},
     cfg |-> d.agent_configurations[id],
     meta |-> {Unwrap(d.agent_metadata[k]) :
                 k \in {x \in MetaKeysOf(id) : IsSome(d.agent_metadata[x])}}]

Version(kind, arg, d, id, since) ==
    [op |-> kind, arg |-> arg, state |-> Slice(d, id), since |-> since]

(* Rows create(a) leaves when it runs alone on an empty store. *)
Seeded(a) ==
    [agents |-> [i \in AgentIds |-> IF i = a.id THEN Some(AgentRow(a)) ELSE None],
     agent_capabilities |->
        [k \in CapKeys |->
            IF k[1] = a.id /\ \E i \in DOMAIN a.capabilities : a.capabilities[i].name = k[2]
            THEN Some(CapabilityRow(
                    a.capabilities[CHOOSE i \in DOMAIN a.capabilities :
                                        a.capabilities[i].name = k[2]]))
            ELSE None],
     agent_configurations |->
        [i \in AgentIds |-> IF i = a.id THEN Some(ConfigurationRow(a)) ELSE None],
     agent_metadata |->
        [k \in MetaTableKeys |->
            IF k[1] = a.id /\ k[2] \in DOMAIN a.metadata
            THEN Some([key |-> k[2], value |-> a.metadata[k[2]]])
            ELSE None]]

TemplateAB == CHOOSE t \in Templates : Len(t.capabilities) = 2
TemplateA == CHOOSE t \in Templates : Len(t.capabilities) = 1
TemplateNone == CHOOSE t \in Templates : Len(t.capabilities) = 0

SeedAgent == Agent("a1", "n1", TemplateAB, 0)

InitRepo ==
    /\ from_impl \in FromImpls
    /\ \E seeded \in BOOLEAN :
        /\ db = IF seeded THEN Seeded(SeedAgent) ELSE EmptyDb
        /\ hist = [i \in AgentIds |->
                    IF seeded /\ i = SeedAgent.id
                    THEN <<Version("create", Some(SeedAgent), Seeded(SeedAgent), i, 0)>>
                    ELSE <<Version("init", None, EmptyDb, i, 0)>>]
    /\ tx = [w \in Workers |-> EmptyTx]
    /\ pc = [w \in Workers |-> 0]
    /\ op = [w \in Workers |-> [kind |-> "none"]]
    /\ loc = [w \in Workers |-> <<>>]
    /\ result = [w \in Workers |-> NoResult]
    /\ seen = [w \in Workers |-> <<>>]
    /\ started = 0
    /\ clock = 0

----------------------------------------------------------------------------
(* Repository calls.  A call starts on an idle worker (a request task      *)
(* holding a pooled connection) and then issues its statements one await   *)
(* at a time.                                                              *)

(* Request tasks are interchangeable: the first call of a run is w1's. *)
FirstWorker == "w1"

Begin(w, o) ==
    /\ pc[w] = 0
    /\ started < MaxOps
    /\ w = FirstWorker \/ started > 0
    /\ started' = started + 1
    /\ op' = [op EXCEPT ![w] = o]
    /\ pc' = [pc EXCEPT ![w] = 1]
    /\ loc' = [loc EXCEPT ![w] = <<>>]
    /\ seen' = [seen EXCEPT ![w] = ("call" :> Len(hist[o.id]))]
    /\ result' = [result EXCEPT ![w] = NoResult]
    /\ UNCHANGED <<db, tx, hist, from_impl, taskVars, learnVars, agentVars>>

(* chrono::Utc::now(): each reading is later than the one before. *)
Now == {clock + 1}

(* SqlxAgentRepository::create(agent): self.pool.begin() *)
CallCreate(w) ==
    \E id \in AgentIds, n \in AgentNames, t \in CreateTemplates :
        \E now \in Now :
            /\ clock' = now
            /\ Begin(w, [kind |-> "create", id |-> id, agent |-> Agent(id, n, t, now)])

(* SqlxAgentRepository::update(agent): self.pool.begin() *)
CallUpdate(w) ==
    \E id \in AgentIds, n \in AgentNames, t \in Templates :
        \E now \in Now :
            /\ clock' = now
            /\ Begin(w, [kind |-> "update", id |-> id, agent |-> Agent(id, n, t, now)])

(* SqlxAgentRepository::delete(id): self.pool.begin() *)
CallDelete(w) ==
    \E id \in AgentIds :
        /\ Begin(w, [kind |-> "delete", id |-> id])
        /\ UNCHANGED clock

(* SqlxAgentRepository::find_by_id(id) *)
CallFindById(w) ==
    \E id \in AgentIds :
        /\ Begin(w, [kind |-> "find_by_id", id |-> id])
        /\ UNCHANGED clock

Finish(w, r) ==
    /\ pc' = [pc EXCEPT ![w] = 0]
    /\ result' = [result EXCEPT ![w] = r]
    /\ loc' = [loc EXCEPT ![w] = <<>>]

(* One statement of an open unit of work succeeds: .execute(&mut *tx).await *)
Execute(w) ==
    /\ InUnitOfWork(w)
    /\ \E now \in IF Cur(w) = "update_agent" THEN Now ELSE {clock} :
        /\ Stmt(w, now).st = "ok"
        /\ IF Transactional(op[w].kind)
           THEN tx' = [tx EXCEPT ![w] = Stmt(w, now).tx] /\ UNCHANGED db
           ELSE db' = Committed(Stmt(w, now).tx) /\ UNCHANGED tx
        /\ clock' = now
    /\ pc' = [pc EXCEPT ![w] = @ + 1]
    /\ UNCHANGED <<op, loc, result, hist, seen, started, from_impl, taskVars, learnVars, agentVars>>

(* The statement fails: `?` converts the error and returns; dropping tx    *)
(* rolls the unit of work back.                                            *)
Fail(w) ==
    /\ InUnitOfWork(w)
    /\ Stmt(w, clock).st = "err"
    /\ tx' = [tx EXCEPT ![w] = EmptyTx]
    /\ LET e == SqlxDatabase(Stmt(w, clock).code, Stmt(w, clock).constraint, NoPeer)
       IN Finish(w, Err(ErrorFrom(e), e))
    /\ UNCHANGED <<db, op, hist, seen, started, clock, from_impl, taskVars, learnVars, agentVars>>

(* Both sessions wait for a row the other holds: the server aborts one     *)
(* of them (SQLSTATE 40P01).                                               *)
Waiting(w) == InUnitOfWork(w) /\ Stmt(w, clock).st = "blocked"

(* A server that never looks for lock cycles. *)
DeadlockUndetected(w) == FALSE /\ UNCHANGED vars

DeadlockDetected(w) ==
    /\ Waiting(w)
    /\ \E v \in Workers \ {w} :
        /\ Waiting(v)
        /\ \A u \in Workers \ {w} : tx[u] # EmptyTx => Waiting(u)
        /\ LET e == SqlxDatabase("40P01", "deadlock", [kind |-> op[v].kind, id |-> op[v].id,
                                 call |-> seen[v]["call"]])
           IN Finish(w, Err(ErrorFrom(e), e))
    /\ tx' = [tx EXCEPT ![w] = EmptyTx]
    /\ UNCHANGED <<db, op, hist, seen, started, clock, from_impl, taskVars, learnVars, agentVars>>

(* tx.commit().await?; Ok(agent.clone()) / Ok(()) *)
Commit(w) ==
    /\ Running(w)
    /\ op[w].kind \in {"create", "update", "delete"}
    /\ Cur(w) = "commit"
    /\ db' = Committed(tx[w])
    /\ tx' = [tx EXCEPT ![w] = EmptyTx]
    /\ hist' = [hist EXCEPT ![op[w].id] =
                  Append(@, Version(op[w].kind,
                                    IF op[w].kind = "delete" THEN None
                                    ELSE Some(op[w].agent),
                                    db', op[w].id, seen[w]["call"]))]
    /\ Finish(w, IF op[w].kind = "delete" THEN Ok("unit") ELSE Ok(op[w].agent))
    /\ UNCHANGED <<op, seen, started, clock, from_impl, taskVars, learnVars, agentVars>>

(* Rows one query of find_by_id fetches from the pool. *)
FetchFrom(q, s) ==
    CASE q = "select_agent" -> s.root
      [] q = "select_capabilities" ->
            {[name |-> r.name, description |-> r.description, version |-> r.version,
              parameters |-> ParametersFromValue(r.parameters)] : r \in s.caps}
      [] q = "select_configuration" -> s.cfg
      [] q = "select_metadata" ->
            [k \in {r.key : r \in s.meta} |->
                (CHOOSE r \in s.meta : r.key = k).value]

Fetch(q, id) == FetchFrom(q, Slice(db, id))

(* let agent = Agent { ... from_value(..)? ... }; Ok(Some(agent)) *)
Assemble(l) ==
    LET row == Unwrap(l["select_agent"])
        cfg == Unwrap(l["select_configuration"])
        ty == AgentTypeFromValue(row.agent_type)
        st == AgentStatusFromValue(row.status)
        mc == StructFromValue(cfg.model_config)
        ec == StructFromValue(cfg.execution_config)
        sc == StructFromValue(cfg.security_config)
    IN IF ty.ok /\ st.ok /\ mc.ok /\ ec.ok /\ sc.ok
       THEN Ok(Some([id |-> row.id, name |-> row.name, description |-> row.description,
                     agent_type |-> ty.v, status |-> st.v,
                     capabilities |-> l["select_capabilities"],
                     configuration |-> [model_config |-> mc.v,
                                        execution_config |-> ec.v,
                                        security_config |-> sc.v],
                     metadata |-> l["select_metadata"],
                     created_at |-> row.created_at, updated_at |-> row.updated_at]))
       ELSE Err([kind |-> "SerializationError"], [serde |-> "from_value"])

(* One query of find_by_id: .fetch_optional / .fetch_all / .fetch_one on the pool *)
Query(w) ==
    /\ Running(w)
    /\ op[w].kind = "find_by_id"
    /\ LET q == Cur(w)
           id == op[w].id
           got == Fetch(q, id)
           l == (q :> got) @@ loc[w]
       IN /\ seen' = [seen EXCEPT ![w] = (q :> Len(hist[id])) @@ @]
          /\ IF q = "select_agent" /\ got = None
             THEN Finish(w, Ok(None))
             ELSE IF q = "select_configuration" /\ got = None
             THEN Finish(w, Err(ErrorFrom(SqlxRowNotFound), SqlxRowNotFound))
             ELSE IF pc[w] = Len(FindQueries)
             THEN Finish(w, Assemble(l))
             ELSE /\ pc' = [pc EXCEPT ![w] = @ + 1]
                  /\ loc' = [loc EXCEPT ![w] = l]
                  /\ UNCHANGED result
    /\ UNCHANGED <<db, tx, op, hist, started, clock, from_impl, taskVars, learnVars, agentVars>>

(* The future of create, update or delete is dropped at an await before   *)
(* tx.commit(): nothing is returned, and dropping tx rolls the unit of    *)
(* work back.                                                              *)
Dropped(at) ==
    [ok |-> FALSE, err |-> [kind |-> "none"], cause |-> [future |-> "dropped", at |-> at]]

Cancel(w) ==
    /\ Running(w)
    /\ op[w].kind \in {"create", "update", "delete"}
    /\ tx' = [tx EXCEPT ![w] = EmptyTx]
    /\ Finish(w, Dropped(Cur(w)))
    /\ UNCHANGED <<db, op, hist, seen, started, clock, from_impl, taskVars, learnVars, agentVars>>

NextRepo ==
    \/ \E w \in Workers : CallCreate(w)
    \/ \E w \in Workers : CallUpdate(w)
    \/ \E w \in Workers : CallDelete(w)
    \/ \E w \in Workers : CallFindById(w)
    \/ \E w \in Workers : Execute(w)
    \/ \E w \in Workers : Fail(w)
    \/ \E w \in Workers : DeadlockDetected(w)
    \/ \E w \in Workers : Commit(w)
    \/ \E w \in Workers : Query(w)

----------------------------------------------------------------------------
(* Tasks (domain/entities.rs) and the mock task service (main.rs).         *)

TaskIds == {"t1", "t2"}
TaskStatus == {"Pending", "Running", "Completed", "Failed", "Cancelled"}
TaskPriority == {"Low", "Normal", "High", "Critical"}
TaskRepos == {"mock", "store"}

(* The Task every transition method of the mock service builds. *)
MockTask(task_id, status, priority, output_data, started_at, completed_at, error_message) ==
    [id |-> task_id, agent_id |-> "AgentId::new()", name |-> "Mock Task",
     description |-> "Mock Description", task_type |-> "TextGeneration",
     status |-> status, priority |-> priority, input_data |-> JObject(EmptyMap),
     output_data |-> output_data, started_at |-> started_at,
     completed_at |-> completed_at, error_message |-> error_message]

MockTaskService_create_task(task_id, request) ==
    [id |-> task_id, agent_id |-> request.agent_id, name |-> request.name,
     description |-> "description", task_type |-> "TextGeneration",
     status |-> "Pending", priority |-> request.priority,
     input_data |-> request.input_data,
     output_data |-> None, started_at |-> None, completed_at |-> None,
     error_message |-> None]

(* A service that stamps started_at and leaves the task Pending. *)
MockTaskService_start_task_leaving_pending(task_id) ==
    MockTask(task_id, "Pending", "Normal", None, Some("now"), None, None)

MockTaskService_start_task(task_id) ==
    MockTask(task_id, "Running", "Normal", None, Some("now"), None, None)

MockTaskService_complete_task(task_id, output) ==
    MockTask(task_id, "Completed", "Normal", Some(output), Some("now"), Some("now"), None)

MockTaskService_fail_task(task_id, error_message) ==
    MockTask(task_id, "Failed", "Normal", None, Some("now"), None, Some(error_message))

MockTaskService_cancel_task(task_id) ==
    MockTask(task_id, "Cancelled", "Normal", None, None, None, None)

MockTaskService_prioritize_task(task_id, priority) ==
    MockTask(task_id, "Pending", priority, None, None, None, None)

(* self.task_service.<method>(..) of the use-case method o *)
TaskServiceCall(o) ==
    CASE o.kind = "start_task" -> MockTaskService_start_task(o.id)
      [] o.kind = "complete_task" -> MockTaskService_complete_task(o.id, o.output)
      [] o.kind = "fail_task" -> MockTaskService_fail_task(o.id, o.error_message)
      [] o.kind = "cancel_task" -> MockTaskService_cancel_task(o.id)
      [] o.kind = "prioritize_task" -> MockTaskService_prioritize_task(o.id, o.priority)

(* MockTaskRepository (main.rs): keeps nothing. *)
MockTaskRepository_find_by_id_returning_default(id) ==
    Some(MockTaskService_prioritize_task(id, "Normal"))
MockTaskRepository_find_by_id(id) == None
MockTaskRepository_write(rows, id, row) == rows

(* A TaskRepository that keeps its rows: create stores the row, update     *)
(* rewrites the row with that id, delete removes it, find_by_id reads it.  *)
StoredTaskRepository_find_by_id(id) == tasks[id]
StoredTaskRepository_create(rows, id, row) == [rows EXCEPT ![id] = row]
StoredTaskRepository_update(rows, id, row) ==
    IF IsSome(rows[id]) THEN [rows EXCEPT ![id] = row] ELSE rows
StoredTaskRepository_delete(rows, id, row) == [rows EXCEPT ![id] = None]

MockTaskRepository_count == 0
MockTaskRepository_count_by_status(status) == 0

(* Its count is the number of rows it keeps, count_by_status the number   *)
(* of them with that status.                                               *)
StoredTaskRepository_count == Cardinality({i \in TaskIds : IsSome(tasks[i])})
StoredTaskRepository_count_by_status(status) ==
    Cardinality({i \in TaskIds : IsSome(tasks[i]) /\ Unwrap(tasks[i]).status = status})

(* Arc<dyn TaskRepository> *)
TaskRepository_find_by_id(id) ==
    IF task_repo = "mock" THEN MockTaskRepository_find_by_id(id)
    ELSE StoredTaskRepository_find_by_id(id)
TaskRepository_create(t) ==
    IF task_repo = "mock" THEN MockTaskRepository_write(tasks, t.id, Some(t))
    ELSE StoredTaskRepository_create(tasks, t.id, Some(t))
TaskRepository_update(t) ==
    IF task_repo = "mock" THEN MockTaskRepository_write(tasks, t.id, Some(t))
    ELSE StoredTaskRepository_update(tasks, t.id, Some(t))
TaskRepository_delete(id) ==
    IF task_repo = "mock" THEN MockTaskRepository_write(tasks, id, None)
    ELSE StoredTaskRepository_delete(tasks, id, None)

TaskRepository_count ==
    IF task_repo = "mock" THEN MockTaskRepository_count ELSE StoredTaskRepository_count
TaskRepository_count_by_status(status) ==
    IF task_repo = "mock" THEN MockTaskRepository_count_by_status(status)
    ELSE StoredTaskRepository_count_by_status(status)

(* The statuses get_task_statistics counts, in order. *)
TaskStatisticsStatusesWithoutCancelled == <<"Pending", "Running", "Completed", "Failed">>
TaskStatisticsStatuses == <<"Pending", "Running", "Completed", "Failed", "Cancelled">>

TaskStatistics(counts) ==
    [total_tasks |-> counts[1], pending_tasks |-> counts[2],
     running_tasks |-> counts[3], completed_tasks |-> counts[4],
     failed_tasks |-> counts[5],
     cancelled_tasks |-> IF Len(counts) >= 6 THEN counts[6] ELSE 0]

NotFound(what) == [kind |-> "NotFound", msg |-> what]

InitTaskIdle ==
    /\ task_repo \in TaskRepos
    /\ tasks = [i \in TaskIds |-> None]
    /\ tpc = [w \in Workers |-> "idle"]
    /\ top = [w \in Workers |-> [kind |-> "none"]]
    /\ tloc = [w \in Workers |-> None]
    /\ tres = [w \in Workers |-> NoResult]
    /\ ttrace = [w \in Workers |-> <<>>]

InitTask == InitTaskIdle /\ tcalls = 0

(* MockAgentRepository of the unit tests: its map is empty and no method  *)
(* writes to it; find_by_id of the mock of the integration tests returns  *)
(* Ok(None) likewise.                                                      *)
MockAgentRepository_agents == {}
MockAgentRepository_find_by_id_returning_default(id) ==
    Ok(Some(Agent(id, "n1", TemplateAB, 0)))
MockAgentRepository_find_by_id(id) ==
    IF \E a \in MockAgentRepository_agents : a.id = id
    THEN Ok(Some(CHOOSE a \in MockAgentRepository_agents : a.id = id))
    ELSE Ok(None)

(* SqlxAgentRepository::find_by_id while no repository call is in flight:  *)
(* all four queries read the same committed rows.                          *)
SqlxAgentRepository_find_by_id(id) ==
    LET s == Slice(db, id)
    IN IF s.root = None THEN Ok(None)
       ELSE IF s.cfg = None
       THEN Err(ErrorFrom(SqlxRowNotFound), SqlxRowNotFound)
       ELSE Assemble([q \in Range(FindQueries) |-> FetchFrom(q, s)])

(* Arc<dyn AgentRepository> of the task and learning use cases *)
AgentRepository_find_by_id(id) ==
    IF agent_repo = "mock" THEN MockAgentRepository_find_by_id(id)
    ELSE SqlxAgentRepository_find_by_id(id)

UseCaseError == [usecase |-> "ok_or_else"]
Called(name, ret) == [call |-> name, ret |-> ret]

(* .ok_or_else(|| Error::NotFound(..))? on the Option find_by_id returned *)
MissingNever(found) == FALSE
Missing(found) == found = None

TaskCall(w, first) ==
    /\ tpc[w] = "idle"
    /\ tcalls < MaxTaskCalls
    /\ w = FirstWorker \/ tcalls > 0
    /\ tcalls' = tcalls + 1
    /\ tpc' = [tpc EXCEPT ![w] = first]
    /\ tloc' = [tloc EXCEPT ![w] = None]
    /\ tres' = [tres EXCEPT ![w] = NoResult]
    /\ ttrace' = [ttrace EXCEPT ![w] = <<>>]
    /\ UNCHANGED <<task_repo, tasks, repoVars, learnVars, agentVars>>

(* TaskManagementUseCase::create_task(request) *)
create_task(w) ==
    \E agent_id \in AgentIds, priority \in {"Normal", "High"} :
        /\ TaskCall(w, "find_agent")
        /\ top' = [top EXCEPT ![w] =
                    [kind |-> "create_task",
                     request |-> [agent_id |-> agent_id, name |-> "task",
                                  priority |-> priority,
                                  input_data |-> JObject("prompt" :> "text")]]]

(* TaskManagementUseCase::start_task(task_id) *)
start_task(w) ==
    \E id \in TaskIds :
        /\ TaskCall(w, "find")
        /\ top' = [top EXCEPT ![w] = [kind |-> "start_task", id |-> id]]

(* TaskManagementUseCase::complete_task(task_id, output) *)
complete_task(w) ==
    \E id \in TaskIds :
        /\ TaskCall(w, "find")
        /\ top' = [top EXCEPT ![w] =
                    [kind |-> "complete_task", id |-> id, output |-> JString("out")]]

(* TaskManagementUseCase::fail_task(task_id, error_message) *)
fail_task(w) ==
    \E id \in TaskIds :
        /\ TaskCall(w, "find")
        /\ top' = [top EXCEPT ![w] =
                    [kind |-> "fail_task", id |-> id, error_message |-> "boom"]]

(* TaskManagementUseCase::cancel_task(task_id) *)
cancel_task(w) ==
    \E id \in TaskIds :
        /\ TaskCall(w, "find")
        /\ top' = [top EXCEPT ![w] = [kind |-> "cancel_task", id |-> id]]

(* TaskManagementUseCase::prioritize_task(task_id, priority) *)
prioritize_task(w) ==
    \E id \in TaskIds, priority \in TaskPriority :
        /\ TaskCall(w, "find")
        /\ top' = [top EXCEPT ![w] =
                    [kind |-> "prioritize_task", id |-> id, priority |-> priority]]

(* TaskManagementUseCase::delete_task(task_id) *)
delete_task(w) ==
    \E id \in TaskIds :
        /\ TaskCall(w, "find")
        /\ top' = [top EXCEPT ![w] = [kind |-> "delete_task", id |-> id]]

(* TaskManagementUseCase::get_task_statistics().  The request also notes   *)
(* the rows the repository held at its first query and whether every      *)
(* later query found them the same.                                       *)
get_task_statistics(w) ==
    /\ tpc[w] = "idle"
    /\ top[w].kind # "get_task_statistics"
    /\ tpc' = [tpc EXCEPT ![w] = "count"]
    /\ top' = [top EXCEPT ![w] =
                [kind |-> "get_task_statistics", rows |-> None, steady |-> TRUE]]
    /\ tloc' = [tloc EXCEPT ![w] = None]
    /\ tres' = [tres EXCEPT ![w] = NoResult]
    /\ ttrace' = [ttrace EXCEPT ![w] = <<>>]
    /\ UNCHANGED <<task_repo, tasks, tcalls, repoVars, learnVars, agentVars>>

TaskReturn(w, r) ==
    /\ tpc' = [tpc EXCEPT ![w] = "idle"]
    /\ tres' = [tres EXCEPT ![w] = r]

(* create_task: self.agent_repo.find_by_id(&request.agent_id).await?.ok_or_else(..)? *)
TaskFindAgent(w) ==
    /\ tpc[w] = "find_agent"
    /\ LET r == AgentRepository_find_by_id(top[w].request.agent_id)
       IN /\ ttrace' = [ttrace EXCEPT ![w] = Append(@, Called("agent_repo.find_by_id", r))]
          /\ IF ~r.ok THEN TaskReturn(w, r)
             ELSE IF Missing(r.v) THEN TaskReturn(w, Err(NotFound("Agent"), UseCaseError))
             ELSE tpc' = [tpc EXCEPT ![w] = "service"] /\ UNCHANGED tres
    /\ UNCHANGED <<task_repo, tasks, top, tloc, tcalls, repoVars, learnVars, agentVars>>

(* self.task_repo.find_by_id(task_id).await?.ok_or_else(..)? *)
TaskFind(w) ==
    /\ tpc[w] = "find"
    /\ LET r == TaskRepository_find_by_id(top[w].id)
       IN /\ ttrace' = [ttrace EXCEPT ![w] = Append(@, Called("task_repo.find_by_id", r))]
          /\ IF Missing(r)
             THEN TaskReturn(w, Err(NotFound("Task"), UseCaseError)) /\ UNCHANGED tloc
             ELSE /\ tpc' = [tpc EXCEPT ![w] =
                                IF top[w].kind = "delete_task" THEN "save" ELSE "service"]
                  /\ tloc' = [tloc EXCEPT ![w] = r]
                  /\ UNCHANGED tres
    /\ UNCHANGED <<task_repo, tasks, top, tcalls, repoVars, learnVars, agentVars>>

(* TaskId::new(): a v4 uuid no stored or pending task carries. *)
FreshTaskId(w, id) ==
    /\ tasks[id] = None
    /\ \A v \in Workers \ {w} :
          IF tloc[v] = None THEN TRUE ELSE Unwrap(tloc[v]).id # id

(* self.task_service.<method>(..).await? *)
TaskService(w) ==
    /\ tpc[w] = "service"
    /\ \E fresh \in TaskIds :
        /\ IF top[w].kind = "create_task" THEN FreshTaskId(w, fresh) ELSE fresh = top[w].id
        /\ LET t == IF top[w].kind = "create_task"
                    THEN MockTaskService_create_task(fresh, top[w].request)
                    ELSE TaskServiceCall(top[w])
           IN /\ tloc' = [tloc EXCEPT ![w] = Some(t)]
              /\ ttrace' = [ttrace EXCEPT ![w] = Append(@, Called("task_service", Some(t)))]
    /\ tpc' = [tpc EXCEPT ![w] = "save"]
    /\ UNCHANGED <<task_repo, tasks, top, tres, tcalls, repoVars, learnVars, agentVars>>

(* self.task_repo.create / update / delete (..).await?; Ok(saved_task) *)
TaskSave(w) ==
    /\ tpc[w] = "save"
    /\ tasks' =
          CASE top[w].kind = "create_task" -> TaskRepository_create(Unwrap(tloc[w]))
            [] top[w].kind = "delete_task" -> TaskRepository_delete(top[w].id)
            [] OTHER -> TaskRepository_update(Unwrap(tloc[w]))
    /\ ttrace' = [ttrace EXCEPT ![w] =
          Append(@, Called(CASE top[w].kind = "create_task" -> "task_repo.create"
                             [] top[w].kind = "delete_task" -> "task_repo.delete"
                             [] OTHER -> "task_repo.update", tloc[w]))]
    /\ TaskReturn(w, IF top[w].kind = "delete_task" THEN Ok("unit") ELSE Ok(Unwrap(tloc[w])))
    /\ UNCHANGED <<task_repo, top, tloc, tcalls, repoVars, learnVars, agentVars>>

(* let total_tasks = self.task_repo.count().await?; *)
TaskCount(w) ==
    /\ tpc[w] = "count"
    /\ ttrace' = [ttrace EXCEPT ![w] =
                    Append(@, Called("task_repo.count", TaskRepository_count))]
    /\ top' = [top EXCEPT ![w].rows = Some(tasks)]
    /\ tpc' = [tpc EXCEPT ![w] = "count_by_status"]
    /\ UNCHANGED <<task_repo, tasks, tloc, tres, tcalls, repoVars, learnVars, agentVars>>

(* let .._tasks = self.task_repo.count_by_status(&TaskStatus::..).await?;  *)
(* after the last one: Ok(TaskStatistics { .. })                           *)
TaskCountByStatus(w) ==
    /\ tpc[w] = "count_by_status"
    /\ LET status == TaskStatisticsStatuses[Len(ttrace[w])]
           t == Append(ttrace[w], Called("task_repo.count_by_status",
                                         TaskRepository_count_by_status(status)))
       IN /\ ttrace' = [ttrace EXCEPT ![w] = t]
          /\ IF Len(t) = Len(TaskStatisticsStatuses) + 1
             THEN TaskReturn(w, Ok(TaskStatistics([i \in DOMAIN t |-> t[i].ret])))
             ELSE UNCHANGED <<tpc, tres>>
    /\ top' = [top EXCEPT ![w].steady = @ /\ top[w].rows = Some(tasks)]
    /\ UNCHANGED <<task_repo, tasks, tloc, tcalls, repoVars, learnVars, agentVars>>

NextTask ==
    \/ \E w \in Workers : create_task(w)
    \/ \E w \in Workers : start_task(w)
    \/ \E w \in Workers : complete_task(w)
    \/ \E w \in Workers : fail_task(w)
    \/ \E w \in Workers : cancel_task(w)
    \/ \E w \in Workers : prioritize_task(w)
    \/ \E w \in Workers : delete_task(w)
    \/ \E w \in Workers : TaskFindAgent(w)
    \/ \E w \in Workers : TaskFind(w)
    \/ \E w \in Workers : TaskService(w)
    \/ \E w \in Workers : TaskSave(w)

----------------------------------------------------------------------------
(* Learning sessions (domain/entities.rs) and the mock learning service    *)
(* (main.rs).                                                              *)

SessionIds == {"s1", "s2"}
LearningSessionStatus == {"Preparing", "Training", "Evaluating", "Completed", "Failed"}
LearningRepos == {"mock", "store"}
EmptyMetrics == [accuracy |-> None, loss |-> None]

MockSession(session_id, status, model_snapshot, metrics, completed_at) ==
    [id |-> session_id, agent_id |-> "AgentId::new()", session_type |-> "Supervised",
     status |-> status, training_data |-> <<>>, model_snapshot |-> model_snapshot,
     metrics |-> metrics, completed_at |-> completed_at]

MockLearningService_start_learning_session(session_id, request) ==
    [id |-> session_id, agent_id |-> request.agent_id,
     session_type |-> request.session_type, status |-> "Preparing",
     training_data |-> request.training_data, model_snapshot |-> None,
     metrics |-> EmptyMetrics, completed_at |-> None]

MockLearningService_update_learning_progress(session_id, metrics) ==
    MockSession(session_id, "Training", None, metrics, None)

MockLearningService_complete_learning_session(session_id, final_metrics) ==
    MockSession(session_id, "Completed", None, final_metrics, Some("now"))

MockLearningService_save_model_snapshot(session_id, snapshot) ==
    MockSession(session_id, "Training", Some(snapshot), EmptyMetrics, None)

MockLearningService_validate_training_data(training_data) == TRUE

(* dyn LearningManagementService::validate_training_data *)
LearningManagementService_validate_training_data(training_data) ==
    IF services = "mock" THEN {MockLearningService_validate_training_data(training_data)}
    ELSE ValidatingService_validate(training_data)

(* self.learning_service.<method>(..) of the use-case method o *)
LearningServiceCall(o) ==
    CASE o.kind = "update_learning_progress" ->
            MockLearningService_update_learning_progress(o.id, o.metrics)
      [] o.kind = "complete_learning_session" ->
            MockLearningService_complete_learning_session(o.id, o.metrics)
      [] o.kind = "save_model_snapshot" ->
            MockLearningService_save_model_snapshot(o.id, o.snapshot)

(* MockLearningSessionRepository (main.rs): keeps nothing. *)
MockLearningSessionRepository_find_by_id(id) == None
MockLearningSessionRepository_write(rows, id, row) == rows

(* A LearningSessionRepository that keeps its rows. *)
StoredLearningSessionRepository_find_by_id(id) == sessions[id]
StoredLearningSessionRepository_create(rows, id, row) == [rows EXCEPT ![id] = row]
StoredLearningSessionRepository_update(rows, id, row) ==
    IF IsSome(rows[id]) THEN [rows EXCEPT ![id] = row] ELSE rows
StoredLearningSessionRepository_delete(rows, id, row) == [rows EXCEPT ![id] = None]

(* Arc<dyn LearningSessionRepository> *)
LearningSessionRepository_find_by_id(id) ==
    IF learning_repo = "mock" THEN MockLearningSessionRepository_find_by_id(id)
    ELSE StoredLearningSessionRepository_find_by_id(id)
LearningSessionRepository_create(x) ==
    IF learning_repo = "mock" THEN MockLearningSessionRepository_write(sessions, x.id, Some(x))
    ELSE StoredLearningSessionRepository_create(sessions, x.id, Some(x))
LearningSessionRepository_update(x) ==
    IF learning_repo = "mock" THEN MockLearningSessionRepository_write(sessions, x.id, Some(x))
    ELSE StoredLearningSessionRepository_update(sessions, x.id, Some(x))
LearningSessionRepository_delete(id) ==
    IF learning_repo = "mock" THEN MockLearningSessionRepository_write(sessions, id, None)
    ELSE StoredLearningSessionRepository_delete(sessions, id, None)

InitLearnIdle ==
    /\ learning_repo \in LearningRepos
    /\ sessions = [i \in SessionIds |-> None]
    /\ lpc = [w \in Workers |-> "idle"]
    /\ lop = [w \in Workers |-> [kind |-> "none"]]
    /\ lloc = [w \in Workers |-> None]
    /\ lres = [w \in Workers |-> NoResult]
    /\ ltrace = [w \in Workers |-> <<>>]

InitLearn == InitLearnIdle /\ lcalls = 0

LearningCall(w, first) ==
    /\ lpc[w] = "idle"
    /\ lcalls < MaxLearningCalls
    /\ w = FirstWorker \/ lcalls > 0
    /\ lcalls' = lcalls + 1
    /\ lpc' = [lpc EXCEPT ![w] = first]
    /\ lloc' = [lloc EXCEPT ![w] = None]
    /\ lres' = [lres EXCEPT ![w] = NoResult]
    /\ ltrace' = [ltrace EXCEPT ![w] = <<>>]
    /\ UNCHANGED <<learning_repo, sessions, repoVars, taskVars, agentVars>>

(* LearningManagementUseCase::start_learning_session(request) *)
start_learning_session(w) ==
    \E agent_id \in AgentIds, ty \in {"Supervised", "FineTuning"} :
        /\ LearningCall(w, "find_agent")
        /\ lop' = [lop EXCEPT ![w] =
                    [kind |-> "start_learning_session",
                     request |-> [agent_id |-> agent_id, session_type |-> ty,
                                  training_data |-> <<"sample">>]]]

(* LearningManagementUseCase::update_learning_progress(session_id, metrics) *)
update_learning_progress(w) ==
    \E id \in SessionIds, acc \in {"0.5", "0.9"} :
        /\ LearningCall(w, "find")
        /\ lop' = [lop EXCEPT ![w] =
                    [kind |-> "update_learning_progress", id |-> id,
                     metrics |-> [accuracy |-> Some(acc), loss |-> None]]]

(* LearningManagementUseCase::complete_learning_session(session_id, final_metrics) *)
complete_learning_session(w) ==
    \E id \in SessionIds :
        /\ LearningCall(w, "find")
        /\ lop' = [lop EXCEPT ![w] =
                    [kind |-> "complete_learning_session", id |-> id,
                     metrics |-> [accuracy |-> Some("0.9"), loss |-> Some("0.1")]]]

(* LearningManagementUseCase::save_model_snapshot(session_id, snapshot) *)
save_model_snapshot(w) ==
    \E id \in SessionIds :
        /\ LearningCall(w, "find")
        /\ lop' = [lop EXCEPT ![w] =
                    [kind |-> "save_model_snapshot", id |-> id, snapshot |-> "snapshot"]]

(* LearningManagementUseCase::delete_learning_session(session_id) *)
delete_learning_session(w) ==
    \E id \in SessionIds :
        /\ LearningCall(w, "find")
        /\ lop' = [lop EXCEPT ![w] = [kind |-> "delete_learning_session", id |-> id]]

LearningReturn(w, r) ==
    /\ lpc' = [lpc EXCEPT ![w] = "idle"]
    /\ lres' = [lres EXCEPT ![w] = r]

(* start_learning_session: self.agent_repo.find_by_id(..).await?.ok_or_else(..)? *)
LearningFindAgent(w) ==
    /\ lpc[w] = "find_agent"
    /\ LET r == AgentRepository_find_by_id(lop[w].request.agent_id)
       IN /\ ltrace' = [ltrace EXCEPT ![w] = Append(@, Called("agent_repo.find_by_id", r))]
          /\ IF ~r.ok THEN LearningReturn(w, r)
             ELSE IF Missing(r.v) THEN LearningReturn(w, Err(NotFound("Agent"), UseCaseError))
             ELSE lpc' = [lpc EXCEPT ![w] = "validate"] /\ UNCHANGED lres
    /\ UNCHANGED <<learning_repo, sessions, lop, lloc, lcalls, repoVars, taskVars, agentVars>>

(* if !self.learning_service.validate_training_data(..).await? { return Err(ValidationError) } *)
LearningValidate(w) ==
    /\ lpc[w] = "validate"
    /\ \E valid \in LearningManagementService_validate_training_data(
                        lop[w].request.training_data) :
          /\ ltrace' = [ltrace EXCEPT ![w] =
                          Append(@, Called("learning_service.validate_training_data", valid))]
          /\ IF ~valid
             THEN LearningReturn(w, Err([kind |-> "ValidationError",
                                         msg |-> "Invalid training data"], UseCaseError))
             ELSE lpc' = [lpc EXCEPT ![w] = "service"] /\ UNCHANGED lres
    /\ UNCHANGED <<learning_repo, sessions, lop, lloc, lcalls, repoVars, taskVars, agentVars>>

(* self.learning_repo.find_by_id(session_id).await?.ok_or_else(..)? *)
LearningFind(w) ==
    /\ lpc[w] = "find"
    /\ LET r == LearningSessionRepository_find_by_id(lop[w].id)
       IN /\ ltrace' = [ltrace EXCEPT ![w] = Append(@, Called("learning_repo.find_by_id", r))]
          /\ IF Missing(r)
             THEN LearningReturn(w, Err(NotFound("Learning session"), UseCaseError))
                  /\ UNCHANGED lloc
             ELSE /\ lpc' = [lpc EXCEPT ![w] =
                                IF lop[w].kind = "delete_learning_session"
                                THEN "save" ELSE "service"]
                  /\ lloc' = [lloc EXCEPT ![w] = r]
                  /\ UNCHANGED lres
    /\ UNCHANGED <<learning_repo, sessions, lop, lcalls, repoVars, taskVars, agentVars>>

(* LearningSessionId::new(): a v4 uuid no stored or pending session carries. *)
FreshSessionId(w, id) ==
    /\ sessions[id] = None
    /\ \A v \in Workers \ {w} :
          IF lloc[v] = None THEN TRUE ELSE Unwrap(lloc[v]).id # id

(* self.learning_service.<method>(..).await? *)
LearningService(w) ==
    /\ lpc[w] = "service"
    /\ \E fresh \in SessionIds :
        /\ IF lop[w].kind = "start_learning_session"
           THEN FreshSessionId(w, fresh) ELSE fresh = lop[w].id
        /\ LET x == IF lop[w].kind = "start_learning_session"
                    THEN MockLearningService_start_learning_session(fresh, lop[w].request)
                    ELSE LearningServiceCall(lop[w])
           IN /\ lloc' = [lloc EXCEPT ![w] = Some(x)]
              /\ ltrace' = [ltrace EXCEPT ![w] =
                              Append(@, Called("learning_service", Some(x)))]
    /\ lpc' = [lpc EXCEPT ![w] = "save"]
    /\ UNCHANGED <<learning_repo, sessions, lop, lres, lcalls, repoVars, taskVars, agentVars>>

(* self.learning_repo.create / update / delete (..).await?; Ok(saved_session) *)
LearningSave(w) ==
    /\ lpc[w] = "save"
    /\ sessions' =
          CASE lop[w].kind = "start_learning_session" ->
                    LearningSessionRepository_create(Unwrap(lloc[w]))
            [] lop[w].kind = "delete_learning_session" ->
                    LearningSessionRepository_delete(lop[w].id)
            [] OTHER -> LearningSessionRepository_update(Unwrap(lloc[w]))
    /\ ltrace' = [ltrace EXCEPT ![w] =
          Append(@, Called(CASE lop[w].kind = "start_learning_session" -> "learning_repo.create"
                             [] lop[w].kind = "delete_learning_session" -> "learning_repo.delete"
                             [] OTHER -> "learning_repo.update", lloc[w]))]
    /\ LearningReturn(w, IF lop[w].kind = "delete_learning_session"
                         THEN Ok("unit") ELSE Ok(Unwrap(lloc[w])))
    /\ UNCHANGED <<learning_repo, lop, lloc, lcalls, repoVars, taskVars, agentVars>>

NextLearn ==
    \/ \E w \in Workers : start_learning_session(w)
    \/ \E w \in Workers : update_learning_progress(w)
    \/ \E w \in Workers : complete_learning_session(w)
    \/ \E w \in Workers : save_model_snapshot(w)
    \/ \E w \in Workers : delete_learning_session(w)
    \/ \E w \in Workers : LearningFindAgent(w)
    \/ \E w \in Workers : LearningValidate(w)
    \/ \E w \in Workers : LearningFind(w)
    \/ \E w \in Workers : LearningService(w)
    \/ \E w \in Workers : LearningSave(w)

----------------------------------------------------------------------------
(* AgentManagementUseCase (usecase/agent_management.rs) with the mock      *)
(* agent service (main.rs), over SqlxAgentRepository as main.rs wires it   *)
(* or over the MockAgentRepository of the unit tests.                      *)

AgentRepos == {"sqlx", "mock"}

CreateAgentRequest(n, t) ==
    [name |-> n, description |-> "description", agent_type |-> t.agent_type,
     capabilities |-> t.capabilities, configuration |-> t.configuration,
     metadata |-> t.metadata]

MockAgentService_create_agent(agent_id, request, now) ==
    [id |-> agent_id, name |-> request.name, description |-> request.description,
     agent_type |-> request.agent_type, status |-> "Active",
     capabilities |-> request.capabilities, configuration |-> request.configuration,
     metadata |-> request.metadata, created_at |-> now, updated_at |-> now]

MockAgentService_update_agent_status(agent_id, status, now) ==
    [id |-> agent_id, name |-> "Mock Agent", description |-> "Mock Description",
     agent_type |-> [variant |-> "Conversational"], status |-> status,
     capabilities |-> <<>>, configuration |-> AgentConfiguration("mock"),
     metadata |-> EmptyMap, created_at |-> now, updated_at |-> now]

MockAgentService_add_capability(agent_id, capability, now) ==
    MockAgentService_update_agent_status(agent_id, "Active", now)

MockAgentService_remove_capability(agent_id, capability_name, now) ==
    MockAgentService_update_agent_status(agent_id, "Active", now)

MockAgentService_update_configuration(agent_id, config, now) ==
    MockAgentService_update_agent_status(agent_id, "Active", now)

MockAgentService_validate_agent_configuration(config) == TRUE

(* dyn AgentManagementService::validate_agent_configuration: the verdicts  *)
(* the service the use case holds may return.                              *)
AgentManagementService_validate_agent_configuration(config) ==
    IF services = "mock" THEN {MockAgentService_validate_agent_configuration(config)}
    ELSE ValidatingService_validate(config)

(* self.agent_service.<method>(..) of the use-case method o *)
AgentServiceCall(o, now) ==
    CASE o.kind = "update_agent_status" ->
            MockAgentService_update_agent_status(o.id, o.status, now)
      [] o.kind = "add_capability" ->
            MockAgentService_add_capability(o.id, o.capability, now)
      [] o.kind = "remove_capability" ->
            MockAgentService_remove_capability(o.id, o.capability_name, now)
      [] o.kind = "update_agent_configuration" ->
            MockAgentService_update_configuration(o.id, o.config, now)

(* The other methods of the MockAgentRepository of the unit tests. *)
MockAgentRepository_echo(agent) == Ok(agent)
MockAgentRepository_delete(id) == Ok("unit")
MockAgentRepository_count == Cardinality(MockAgentRepository_agents)
MockAgentRepository_find_by_status(status) ==
    Ok({a \in MockAgentRepository_agents : a.status = status})

(* SqlxAgentRepository::count: the number of rows of agents *)
SqlxAgentRepository_count == Cardinality({i \in AgentIds : IsSome(db.agents[i])})

(* SqlxAgentRepository::find_by_status: the ids of the rows with that      *)
(* status, then find_by_id of each; read at one point in time.             *)
SqlxAgentRepository_find_by_status(status) ==
    LET ids == {i \in AgentIds :
                   /\ IsSome(db.agents[i])
                   /\ Unwrap(db.agents[i]).status = AgentStatusToValue(status)}
        got == [i \in ids |-> SqlxAgentRepository_find_by_id(i)]
    IN IF \E i \in ids : ~got[i].ok
       THEN got[CHOOSE i \in ids : ~got[i].ok]
       ELSE Ok({Unwrap(got[i].v) : i \in {j \in ids : IsSome(got[j].v)}})

AgentRepository_count ==
    IF agent_repo = "mock" THEN MockAgentRepository_count ELSE SqlxAgentRepository_count

AgentRepository_find_by_status(status) ==
    IF agent_repo = "mock" THEN MockAgentRepository_find_by_status(status)
    ELSE SqlxAgentRepository_find_by_status(status)

(* The statuses get_agent_statistics counts, in order. *)
AgentStatisticsStatuses == <<"Active", "Inactive", "Training", "Error">>

AgentStatistics(counts) ==
    [total_agents |-> counts[1], active_agents |-> counts[2],
     inactive_agents |-> counts[3], training_agents |-> counts[4],
     error_agents |-> counts[5]]

(* The committed version of every agent, to tell one repository state     *)
(* from the next.                                                          *)
Stamp == [i \in AgentIds |-> Len(hist[i])]

InitAgentServices(s) ==
    /\ agent_repo \in AgentRepos
    /\ services = s
    /\ apc = [w \in Workers |-> "idle"]
    /\ aop = [w \in Workers |-> [kind |-> "none"]]
    /\ aloc = [w \in Workers |-> None]
    /\ ares = [w \in Workers |-> NoResult]
    /\ atrace = [w \in Workers |-> <<>>]

InitAgentIdle == InitAgentServices("mock")

InitAgent == InitAgentIdle /\ acalls = 0

(* self.agent_repo.<method>(..): SqlxAgentRepository issues its statements *)
(* one await at a time; the mock repository answers at once.               *)
AgentRepoCall(w, o, mock_result) ==
    /\ op' = [op EXCEPT ![w] = o]
    /\ loc' = [loc EXCEPT ![w] = <<>>]
    /\ seen' = [seen EXCEPT ![w] = ("call" :> Len(hist[o.id]))]
    /\ IF agent_repo = "sqlx"
       THEN /\ pc' = [pc EXCEPT ![w] = 1]
            /\ result' = [result EXCEPT ![w] = NoResult]
       ELSE /\ pc' = pc
            /\ result' = [result EXCEPT ![w] = mock_result]
    /\ UNCHANGED <<db, tx, hist, started, clock, from_impl>>

AgentStart(w, first) ==
    /\ apc[w] = "idle"
    /\ pc[w] = 0
    /\ apc' = [apc EXCEPT ![w] = first]
    /\ aloc' = [aloc EXCEPT ![w] = None]
    /\ ares' = [ares EXCEPT ![w] = NoResult]
    /\ atrace' = [atrace EXCEPT ![w] = <<>>]
    /\ UNCHANGED <<agent_repo, services, repoVars, taskVars, learnVars>>

AgentCall(w, first) ==
    /\ acalls < MaxAgentCalls
    /\ w = FirstWorker \/ acalls > 0
    /\ acalls' = acalls + 1
    /\ AgentStart(w, first)

(* AgentManagementUseCase::create_agent(request) *)
create_agent(w) ==
    \E n \in AgentNames :
        /\ AgentCall(w, "validate")
        /\ aop' = [aop EXCEPT ![w] =
                    [kind |-> "create_agent",
                     request |-> CreateAgentRequest(n, TemplateAB)]]

(* AgentManagementUseCase::update_agent_status(agent_id, new_status) *)
update_agent_status(w) ==
    \E id \in AgentIds, status \in {"Inactive", "Maintenance"} :
        /\ AgentCall(w, "find")
        /\ aop' = [aop EXCEPT ![w] =
                    [kind |-> "update_agent_status", id |-> id, status |-> status]]

(* AgentManagementUseCase::add_capability(agent_id, capability) *)
add_capability(w) ==
    \E id \in AgentIds :
        /\ AgentCall(w, "find")
        /\ aop' = [aop EXCEPT ![w] =
                    [kind |-> "add_capability", id |-> id, capability |-> CapB]]

(* AgentManagementUseCase::remove_capability(agent_id, capability_name) *)
remove_capability(w) ==
    \E id \in AgentIds :
        /\ AgentCall(w, "find")
        /\ aop' = [aop EXCEPT ![w] =
                    [kind |-> "remove_capability", id |-> id, capability_name |-> "A"]]

(* AgentManagementUseCase::update_agent_configuration(agent_id, new_config) *)
update_agent_configuration(w) ==
    \E id \in AgentIds :
        /\ AgentCall(w, "validate")
        /\ aop' = [aop EXCEPT ![w] =
                    [kind |-> "update_agent_configuration", id |-> id,
                     config |-> AgentConfiguration("m2")]]

(* AgentManagementUseCase::delete_agent(agent_id) *)
delete_agent(w) ==
    \E id \in AgentIds :
        /\ AgentCall(w, "find")
        /\ aop' = [aop EXCEPT ![w] = [kind |-> "delete_agent", id |-> id]]

(* AgentManagementUseCase::get_agent_statistics().  The request also      *)
(* notes the repository state at its first query and whether every later  *)
(* query found the same.                                                   *)
get_agent_statistics(w) ==
    /\ aop[w].kind # "get_agent_statistics"
    /\ AgentStart(w, "count")
    /\ aop' = [aop EXCEPT ![w] =
                [kind |-> "get_agent_statistics", at |-> None, steady |-> TRUE]]
    /\ UNCHANGED acalls

(* A use case that maps every error of a callee to its own kind. *)
AgentReturnWrapping(w, r) ==
    /\ apc' = [apc EXCEPT ![w] = "idle"]
    /\ ares' = [ares EXCEPT ![w] =
                  IF r.ok THEN r ELSE Err([kind |-> "InternalError"], r.cause)]

AgentReturn(w, r) ==
    /\ apc' = [apc EXCEPT ![w] = "idle"]
    /\ ares' = [ares EXCEPT ![w] = r]

(* A use case that goes on whatever the validation call returned. *)
AgentValidateProceeding(w) ==
    /\ apc[w] = "validate"
    /\ \E valid \in AgentManagementService_validate_agent_configuration(
                        IF aop[w].kind = "create_agent"
                        THEN aop[w].request.configuration ELSE aop[w].config) :
          atrace' = [atrace EXCEPT ![w] =
                        Append(@, Called("agent_service.validate_agent_configuration",
                                         valid))]
    /\ apc' = [apc EXCEPT ![w] =
                  IF aop[w].kind = "create_agent" THEN "service" ELSE "find"]
    /\ UNCHANGED <<agent_repo, services, aop, aloc, ares, acalls, repoVars, taskVars,
                   learnVars>>

(* if !self.agent_service.validate_agent_configuration(..).await? { return Err(..) } *)
AgentValidate(w) ==
    /\ apc[w] = "validate"
    /\ \E valid \in AgentManagementService_validate_agent_configuration(
                        IF aop[w].kind = "create_agent"
                        THEN aop[w].request.configuration ELSE aop[w].config) :
          /\ atrace' = [atrace EXCEPT ![w] =
                          Append(@, Called("agent_service.validate_agent_configuration",
                                           valid))]
          /\ IF ~valid
             THEN AgentReturn(w, Err([kind |-> "ValidationError",
                                      msg |-> "Invalid agent configuration"],
                                     UseCaseError))
             ELSE /\ apc' = [apc EXCEPT ![w] =
                                IF aop[w].kind = "create_agent" THEN "service" ELSE "find"]
                  /\ UNCHANGED ares
    /\ UNCHANGED <<agent_repo, services, aop, aloc, acalls, repoVars, taskVars, learnVars>>

(* self.agent_repo.find_by_id(agent_id) is called *)
AgentFind(w) ==
    /\ apc[w] = "find"
    /\ AgentRepoCall(w, [kind |-> "find_by_id", id |-> aop[w].id],
                     MockAgentRepository_find_by_id(aop[w].id))
    /\ apc' = [apc EXCEPT ![w] = "finding"]
    /\ UNCHANGED <<agent_repo, services, aop, aloc, ares, atrace, acalls, taskVars, learnVars>>

(* .await?.ok_or_else(|| Error::NotFound(..))? on what find_by_id returned *)
AgentFound(w) ==
    /\ apc[w] = "finding"
    /\ pc[w] = 0
    /\ LET r == result[w]
       IN /\ atrace' = [atrace EXCEPT ![w] = Append(@, Called("agent_repo.find_by_id", r))]
          /\ IF ~r.ok THEN AgentReturn(w, r) /\ UNCHANGED aloc
             ELSE IF Missing(r.v)
             THEN AgentReturn(w, Err(NotFound("Agent"), UseCaseError)) /\ UNCHANGED aloc
             ELSE /\ apc' = [apc EXCEPT ![w] =
                                IF aop[w].kind = "delete_agent" THEN "save" ELSE "service"]
                  /\ aloc' = [aloc EXCEPT ![w] = r.v]
                  /\ UNCHANGED ares
    /\ UNCHANGED <<agent_repo, services, aop, acalls, repoVars, taskVars, learnVars>>

(* AgentId::new(): a v4 uuid no stored agent and no request carries. *)
FreshAgentId(w, id) ==
    /\ db.agents[id] = None
    /\ Len(hist[id]) = 1
    /\ \A v \in Workers \ {w} :
          /\ IF aloc[v] = None THEN TRUE ELSE Unwrap(aloc[v]).id # id
          /\ IF aop[v].kind \in {"none", "create_agent", "get_agent_statistics"}
             THEN TRUE ELSE aop[v].id # id \/ apc[v] = "idle"

(* self.agent_service.<method>(..).await? *)
AgentService(w) ==
    /\ apc[w] = "service"
    /\ \E now \in Now, fresh \in AgentIds :
        /\ IF aop[w].kind = "create_agent" THEN FreshAgentId(w, fresh) ELSE fresh = aop[w].id
        /\ LET a == IF aop[w].kind = "create_agent"
                    THEN MockAgentService_create_agent(fresh, aop[w].request, now)
                    ELSE AgentServiceCall(aop[w], now)
           IN /\ aloc' = [aloc EXCEPT ![w] = Some(a)]
              /\ atrace' = [atrace EXCEPT ![w] = Append(@, Called("agent_service", Some(a)))]
        /\ clock' = now
    /\ apc' = [apc EXCEPT ![w] = "save"]
    /\ UNCHANGED <<agent_repo, services, aop, ares, acalls, taskVars, learnVars>>
    /\ UNCHANGED <<db, tx, pc, op, loc, result, hist, seen, started, from_impl>>

(* self.agent_repo.create / update / delete (..) is called *)
AgentSave(w) ==
    /\ apc[w] = "save"
    /\ LET k == aop[w].kind
           a == Unwrap(aloc[w])
       IN /\ IF k = "create_agent"
             THEN AgentRepoCall(w, [kind |-> "create", id |-> a.id, agent |-> a],
                                MockAgentRepository_echo(a))
             ELSE IF k = "delete_agent"
             THEN AgentRepoCall(w, [kind |-> "delete", id |-> aop[w].id],
                                MockAgentRepository_delete(aop[w].id))
             ELSE AgentRepoCall(w, [kind |-> "update", id |-> a.id, agent |-> a],
                                MockAgentRepository_echo(a))
          /\ atrace' = [atrace EXCEPT ![w] =
                Append(@, Called(IF k = "create_agent" THEN "agent_repo.create"
                                 ELSE IF k = "delete_agent" THEN "agent_repo.delete"
                                 ELSE "agent_repo.update", aloc[w]))]
    /\ apc' = [apc EXCEPT ![w] = "saving"]
    /\ UNCHANGED <<agent_repo, services, aop, aloc, ares, acalls, taskVars, learnVars>>

(* A use case that calls the repository again when the write failed. *)
AgentSavedRetrying(w) ==
    /\ apc[w] = "saving"
    /\ pc[w] = 0
    /\ IF result[w].ok THEN AgentReturn(w, result[w])
       ELSE apc' = [apc EXCEPT ![w] = "save"] /\ UNCHANGED ares
    /\ UNCHANGED <<agent_repo, services, aop, aloc, atrace, acalls, repoVars, taskVars, learnVars>>

(* .await?; Ok(saved_agent) / Ok(()) on what the repository returned *)
AgentSaved(w) ==
    /\ apc[w] = "saving"
    /\ pc[w] = 0
    /\ AgentReturn(w, result[w])
    /\ UNCHANGED <<agent_repo, services, aop, aloc, atrace, acalls, repoVars, taskVars, learnVars>>

(* let total_agents = self.agent_repo.count().await?; *)
AgentCount(w) ==
    /\ apc[w] = "count"
    /\ atrace' = [atrace EXCEPT ![w] =
                    Append(@, Called("agent_repo.count", Ok(AgentRepository_count)))]
    /\ aop' = [aop EXCEPT ![w].at = Some(Stamp)]
    /\ apc' = [apc EXCEPT ![w] = "find_by_status"]
    /\ UNCHANGED <<agent_repo, services, aloc, ares, acalls, repoVars, taskVars, learnVars>>

(* let .._agents = self.agent_repo.find_by_status(&AgentStatus::..).await?.len(); *)
(* after the last one: Ok(AgentStatistics { .. })                          *)
AgentFindByStatus(w) ==
    /\ apc[w] = "find_by_status"
    /\ LET status == AgentStatisticsStatuses[Len(atrace[w])]
           r == AgentRepository_find_by_status(status)
           t == Append(atrace[w], Called("agent_repo.find_by_status",
                                         IF r.ok THEN Ok(Cardinality(r.v)) ELSE r))
       IN /\ atrace' = [atrace EXCEPT ![w] = t]
          /\ IF ~r.ok THEN AgentReturn(w, r)
             ELSE IF Len(t) = Len(AgentStatisticsStatuses) + 1
             THEN AgentReturn(w, Ok(AgentStatistics([i \in DOMAIN t |-> t[i].ret.v])))
             ELSE UNCHANGED <<apc, ares>>
    /\ aop' = [aop EXCEPT ![w].steady = @ /\ aop[w].at = Some(Stamp)]
    /\ UNCHANGED <<agent_repo, services, aloc, acalls, repoVars, taskVars, learnVars>>

NextAgent ==
    \/ \E w \in Workers : create_agent(w)
    \/ \E w \in Workers : update_agent_status(w)
    \/ \E w \in Workers : add_capability(w)
    \/ \E w \in Workers : remove_capability(w)
    \/ \E w \in Workers : update_agent_configuration(w)
    \/ \E w \in Workers : delete_agent(w)
    \/ \E w \in Workers : get_agent_statistics(w)
    \/ \E w \in Workers : AgentValidate(w)
    \/ \E w \in Workers : AgentFind(w)
    \/ \E w \in Workers : AgentFound(w)
    \/ \E w \in Workers : AgentService(w)
    \/ \E w \in Workers : AgentSave(w)
    \/ \E w \in Workers : AgentSaved(w)
    \/ \E w \in Workers : AgentCount(w)
    \/ \E w \in Workers : AgentFindByStatus(w)
    \/ \E w \in Workers : Execute(w)
    \/ \E w \in Workers : Fail(w)
    \/ \E w \in Workers : DeadlockDetected(w)
    \/ \E w \in Workers : Commit(w)
    \/ \E w \in Workers : Query(w)

----------------------------------------------------------------------------
(* The agent repository under concurrent callers; the use cases are idle   *)
(* and hold the repositories main.rs constructs them with.                 *)
InitRepoCallers ==
    /\ InitRepo /\ InitTask /\ InitLearn /\ InitAgent
    /\ task_repo = "mock" /\ learning_repo = "mock" /\ agent_repo = "sqlx"

SpecRepo == InitRepoCallers /\ [][NextRepo]_vars

(* The same callers, any of which may be cancelled. *)
NextRepoCancel ==
    \/ NextRepo
    \/ \E w \in Workers : Cancel(w)

SpecRepoCancel == InitRepoCallers /\ [][NextRepoCancel]_vars

(* The task use case over either task repository. *)
InitTaskCallers ==
    /\ InitRepo /\ InitTask /\ InitLearn /\ InitAgent
    /\ learning_repo = "mock" /\ agent_repo = "sqlx"

SpecTask == InitTaskCallers /\ [][NextTask]_vars

(* The learning use case over either session repository. *)
InitLearnCallers ==
    /\ InitRepo /\ InitTask /\ InitLearn /\ InitAgent
    /\ task_repo = "mock" /\ agent_repo = "sqlx"

SpecLearn == InitLearnCallers /\ [][NextLearn]_vars

(* The task use case with its statistics query. *)
NextTaskStatistics ==
    \/ \E w \in Workers : create_task(w)
    \/ \E w \in Workers : start_task(w)
    \/ \E w \in Workers : complete_task(w)
    \/ \E w \in Workers : fail_task(w)
    \/ \E w \in Workers : cancel_task(w)
    \/ \E w \in Workers : prioritize_task(w)
    \/ \E w \in Workers : delete_task(w)
    \/ \E w \in Workers : get_task_statistics(w)
    \/ \E w \in Workers : TaskFindAgent(w)
    \/ \E w \in Workers : TaskFind(w)
    \/ \E w \in Workers : TaskService(w)
    \/ \E w \in Workers : TaskSave(w)
    \/ \E w \in Workers : TaskCount(w)
    \/ \E w \in Workers : TaskCountByStatus(w)

SpecTaskStatistics == InitTaskCallers /\ [][NextTaskStatistics]_vars

(* The agent use case, its requests served concurrently. *)
InitAgentCallers ==
    /\ InitRepo /\ InitTask /\ InitLearn /\ InitAgent
    /\ task_repo = "mock" /\ learning_repo = "mock"

SpecAgent == InitAgentCallers /\ [][NextAgent]_vars

----------------------------------------------------------------------------
(* Properties of SqlxAgentRepository.                                      *)

Finished(w, kind) == pc[w] = 0 /\ op[w].kind = kind
Found(w) == Finished(w, "find_by_id") /\ result[w].ok /\ IsSome(result[w].v)
Last(s) == s[Len(s)]

(* The aggregate find_by_id assembles when all four queries read slice s. *)
SnapshotOf(s) ==
    Assemble([q \in Range(FindQueries) |-> FetchFrom(q, s)])

(* The version each query of w's finished find_by_id read. *)
SawVersion(w, q) == hist[op[w].id][seen[w][q]]
SawOnly(w, i) == \A q \in DOMAIN seen[w] \ {"call"} : seen[w][q] = i

(* From version s to version e the agent id had a root row, and every     *)
(* update committed after s had been called while the agent had one.      *)
ExistingThroughout(id, s, e) ==
    \A k \in s..e :
        /\ IsSome(hist[id][k].state.root)
        /\ (k > s /\ hist[id][k].op = "update") =>
              IsSome(hist[id][hist[id][k].since].state.root)

(* The agent of w's call existed, in that sense, from the call until now. *)
ExistedSinceCall(w) ==
    ExistingThroughout(op[w].id, seen[w]["call"], Len(hist[op[w].id]))

(* C1: a find_by_id that reads the version committed by create(agent),    *)
(* with n capabilities and m metadata entries, returns Some(aggregate)     *)
(* whose capabilities are the same set of capability values and whose      *)
(* metadata is the same map as the agent handed to create.                 *)
C1_CreateThenFindRoundTrip ==
    \A w \in Workers :
        Finished(w, "find_by_id") =>
            LET i == seen[w]["select_agent"]
                v == hist[op[w].id][i]
            IN (v.op = "create" /\ SawOnly(w, i)) =>
                  /\ result[w].ok
                  /\ IsSome(result[w].v)
                  /\ Unwrap(result[w].v).capabilities = Range(Unwrap(v.arg).capabilities)
                  /\ Unwrap(result[w].v).metadata = Unwrap(v.arg).metadata

C1_Witness ==
    \E w \in Workers :
        /\ Found(w)
        /\ seen[w]["select_agent"] = 2
        /\ SawOnly(w, 2)
        /\ SawVersion(w, "select_agent").op = "create"
        /\ Cardinality(Unwrap(result[w].v).capabilities) = 2
        /\ DOMAIN Unwrap(result[w].v).metadata # {}

(* C2: the capability set a find_by_id returns is never older than the    *)
(* root row it returns, and it is exactly the capability set handed to    *)
(* the create, or to the update of an agent existing throughout that      *)
(* update, that committed the version it was read from: after an update   *)
(* from {A,B} to {A} with a status change no find returns the empty set,  *)
(* a partial set, or the new status with the old set.                     *)
C2_CapabilityReplacementAtomic ==
    \A w \in Workers :
        Found(w) =>
            LET r == SawVersion(w, "select_agent")
                c == SawVersion(w, "select_capabilities")
                a == Unwrap(result[w].v)
            IN /\ seen[w]["select_capabilities"] >= seen[w]["select_agent"]
               /\ a.status = AgentStatusFromValue(Unwrap(r.state.root).status).v
               /\ (\/ c.op = "create"
                   \/ /\ c.op = "update"
                      /\ ExistingThroughout(op[w].id, c.since,
                                            seen[w]["select_capabilities"] - 1)) =>
                     a.capabilities = Range(Unwrap(c.arg).capabilities)

C2_Witness ==
    \E w \in Workers :
        /\ Found(w)
        /\ seen[w]["select_agent"] = 2
        /\ SawVersion(w, "select_capabilities").op = "update"
        /\ hist[op[w].id][1].state.caps = {CapabilityRow(CapA), CapabilityRow(CapB)}
        /\ Unwrap(result[w].v).capabilities = {CapA}
        /\ Unwrap(result[w].v).status = "Inactive"
        /\ Unwrap(hist[op[w].id][1].state.root).status = AgentStatusToValue("Active")

(* C3: every aggregate find_by_id returns is the aggregate of one single  *)
(* committed version of that agent.                                       *)
C3_FindByIdOneSnapshot ==
    \A w \in Workers :
        Found(w) =>
            \E k \in DOMAIN hist[op[w].id] :
                LET s == hist[op[w].id][k].state
                IN IsSome(s.root) /\ IsSome(s.cfg) /\ SnapshotOf(s) = result[w]

(* The columns and child rows update(x) writes. *)
WrittenBy(x, s) ==
    /\ IsSome(s.root)
    /\ Unwrap(s.root).name = x.name
    /\ Unwrap(s.root).description = x.description
    /\ Unwrap(s.root).agent_type = AgentTypeToValue(x.agent_type)
    /\ Unwrap(s.root).status = AgentStatusToValue(x.status)
    /\ s.caps = {CapabilityRow(c) : c \in Range(x.capabilities)}
    /\ s.cfg = Some(ConfigurationRow(x))
    /\ s.meta = {[key |-> k, value |-> x.metadata[k]] : k \in DOMAIN x.metadata}

(* C4: updates of one agent that exists throughout them serialise.  Every *)
(* version such an update commits holds exactly the name, description,    *)
(* type, status, capability rows, configuration and metadata rows of that *)
(* update's argument; the stored rows always equal the version committed  *)
(* last; and such an update fails only on the name uniqueness constraint  *)
(* or in a deadlock with something other than an update of the same id    *)
(* called while the agent existed.                                        *)
C4_ConcurrentUpdatesSerialise ==
    /\ \A id \in AgentIds :
        /\ Slice(db, id) = Last(hist[id]).state
        /\ \A i \in 2..Len(hist[id]) :
              (/\ hist[id][i].op = "update"
               /\ ExistingThroughout(id, hist[id][i].since, i - 1)) =>
                  WrittenBy(Unwrap(hist[id][i].arg), hist[id][i].state)
    /\ \A w \in Workers :
        (Finished(w, "update") /\ ~result[w].ok /\ ExistedSinceCall(w)) =>
            LET e == result[w].cause
            IN \/ e.code = "23505" /\ e.constraint = "agents_name_key"
               \/ /\ e.code = "40P01"
                  /\ ~(/\ e.peer.kind = "update"
                       /\ e.peer.id = op[w].id
                       /\ IsSome(hist[op[w].id][e.peer.call].state.root))

C4_Witness ==
    \E id \in AgentIds :
        /\ Len(hist[id]) = 3
        /\ hist[id][2].op = "update"
        /\ hist[id][3].op = "update"
        /\ hist[id][2].arg # hist[id][3].arg
        /\ Unwrap(hist[id][3].arg).created_at < Unwrap(hist[id][2].state.root).updated_at
        /\ \A w \in Workers : Finished(w, "update") /\ result[w].ok
        /\ Slice(db, id).caps # hist[id][2].state.caps
        /\ WrittenBy(Unwrap(hist[id][3].arg), Slice(db, id))

----------------------------------------------------------------------------
(* Properties of TaskManagementUseCase.                                    *)

GatedTaskMethods == {"start_task", "complete_task", "fail_task", "cancel_task"}
TerminalTaskStatus == {"Completed", "Failed", "Cancelled"}

C6_TerminalAbsorbing ==
    [][\A id \in TaskIds :
          (/\ IsSome(tasks[id])
           /\ Unwrap(tasks[id]).status \in TerminalTaskStatus
           /\ IsSome(tasks'[id])) =>
              Unwrap(tasks'[id]).status = Unwrap(tasks[id]).status]_vars

(* C7: a step stores Completed or Failed for a task only if the task was  *)
(* stored as Running, and stores Running only if it was stored as         *)
(* Pending.                                                               *)
C7_LegalEdges ==
    [][\A id \in TaskIds :
          (/\ IsSome(tasks'[id])
           /\ tasks'[id] # tasks[id]
           /\ Unwrap(tasks'[id]).status \in {"Completed", "Failed", "Running"}) =>
              /\ IsSome(tasks[id])
              /\ Unwrap(tasks[id]).status =
                    IF Unwrap(tasks'[id]).status = "Running" THEN "Pending" ELSE "Running"]_vars

----------------------------------------------------------------------------
(* Properties of LearningManagementUseCase.                                *)

NonTerminalSessionStatus == {"Preparing", "Training", "Evaluating"}
SessionEdges ==
    {<<"Preparing", "Training">>, <<"Training", "Evaluating">>,
     <<"Evaluating", "Completed">>}
      \cup {<<x, "Failed">> : x \in NonTerminalSessionStatus}

(* C8: every step that changes the status stored for a session takes it   *)
(* along Preparing->Training, Training->Evaluating, Evaluating->Completed *)
(* or from a non-terminal status to Failed.                                *)
C8_SessionEdges ==
    [][\A id \in SessionIds :
          (/\ IsSome(sessions[id])
           /\ IsSome(sessions'[id])
           /\ Unwrap(sessions'[id]).status # Unwrap(sessions[id]).status) =>
              <<Unwrap(sessions[id]).status, Unwrap(sessions'[id]).status>>
                    \in SessionEdges]_vars

(* The statuses the use case's methods can store for a session stored     *)
(* with a status in S: each method stores what its service call returns.  *)
SessionTransitionMethods ==
    {"update_learning_progress", "complete_learning_session", "save_model_snapshot"}
StatusStoredBy(kind) ==
    LearningServiceCall([kind |-> kind, id |-> "s1", metrics |-> EmptyMetrics,
                         snapshot |-> "snapshot"]).status
RECURSIVE ReachableSessionStatus(_)
ReachableSessionStatus(S) ==
    LET N == S \cup {StatusStoredBy(k) : k \in SessionTransitionMethods}
    IN IF N = S THEN S ELSE ReachableSessionStatus(N)

(* C9: for every session stored with a non-terminal status, Failed is     *)
(* among the statuses a sequence of use-case methods can store for it.    *)
C9_FailedReachable ==
    \A id \in SessionIds :
        (/\ IsSome(sessions[id])
         /\ Unwrap(sessions[id]).status \in NonTerminalSessionStatus) =>
            "Failed" \in ReachableSessionStatus({Unwrap(sessions[id]).status})

(* No run of the use case stores a Failed session. *)
C9_NoSessionFailed ==
    \A id \in SessionIds :
        IsSome(sessions[id]) => Unwrap(sessions[id]).status # "Failed"

C10_RejectedCreateLeavesNoRows ==
    \A w \in Workers :
        (/\ Finished(w, "create")
         /\ ~result[w].ok
         /\ result[w].cause.constraint = "agents_name_key") =>
            /\ result[w].err.kind \in {"Conflict", "DatabaseError"}
            /\ (Last(hist[op[w].id]).op \in {"init", "delete"}) =>
                    Slice(db, op[w].id) = Slice(EmptyDb, op[w].id)

----------------------------------------------------------------------------
(* Units of work of SqlxAgentRepository.                                   *)

(* The step is one of worker w's call: its position moves. *)
StepOf(w) == pc'[w] # pc[w]

(* The rows of agent a's id after create(a) alone. *)
WholeAggregate(a) == Slice(Seeded(a), a.id)

(* C11: create is all-or-nothing.  Every step of a create other than its  *)
(* successful commit, and so each failing insert and the error return it  *)
(* causes, leaves the committed rows of all four tables as they were;     *)
(* the rows a statement of any reader can read are always those of the    *)
(* version committed last; and every version a create committed holds     *)
(* the root row together with the configuration row, every capability     *)
(* row and every metadata row of the created agent.                       *)
C11_CreateAllOrNothing ==
    /\ [][\A w \in Workers :
            (/\ op[w].kind = "create"
             /\ StepOf(w)
             /\ ~(pc'[w] = 0 /\ result'[w].ok)) => db' = db]_vars
    /\ [](\A id \in AgentIds :
            /\ Slice(db, id) = Last(hist[id]).state
            /\ \A i \in DOMAIN hist[id] :
                  hist[id][i].op = "create" =>
                      hist[id][i].state = WholeAggregate(Unwrap(hist[id][i].arg)))

(* A create failed on its second capability row, after the root row and   *)
(* the first capability row went in, and nothing of it is stored.         *)
C11_Witness ==
    \E w \in Workers :
        /\ Finished(w, "create")
        /\ ~result[w].ok
        /\ result[w].cause.code = "23505"
        /\ result[w].cause.constraint = "agent_capabilities"
        /\ Len(hist[op[w].id]) = 1
        /\ Slice(db, op[w].id) = Slice(EmptyDb, op[w].id)

(* C12: the commit of update(agent), for an agent that exists throughout  *)
(* the update, leaves exactly the capability rows and metadata rows of    *)
(* the supplied aggregate under agent.id, with the supplied name,         *)
(* description, type, status and configuration: no row of a capability    *)
(* or metadata key absent from the aggregate remains and every supplied   *)
(* one is stored.                                                         *)
C12_UpdateReconciliationExact ==
    [][\A w \in Workers :
          (/\ op[w].kind = "update"
           /\ StepOf(w)
           /\ pc'[w] = 0
           /\ result'[w].ok
           /\ ExistedSinceCall(w)) =>
              LET s == Slice(db', op[w].id)
                  x == op[w].agent
              IN /\ WrittenBy(x, s)
                 /\ {r.name : r \in s.caps} = {c.name : c \in Range(x.capabilities)}
                 /\ {r.key : r \in s.meta} = DOMAIN x.metadata]_vars

(* An update from capabilities {A,B} and metadata {k1} to no capability   *)
(* and metadata {k1,k2} has committed: A and B are gone, k2 is stored.    *)
C12_Witness ==
    \E w \in Workers :
        /\ Finished(w, "update")
        /\ result[w].ok
        /\ Len(hist[op[w].id]) = 2
        /\ hist[op[w].id][1].state.caps = {CapabilityRow(CapA), CapabilityRow(CapB)}
        /\ {r.key : r \in hist[op[w].id][1].state.meta} = {"k1"}
        /\ Slice(db, op[w].id).caps = {}
        /\ {r.key : r \in Slice(db, op[w].id).meta} = {"k1", "k2"}

(* The aggregate value without its timestamps, which update does not store. *)
Untimed(a) == [a EXCEPT !.created_at = 0, !.updated_at = 0]

(* w's update was handed the value of the update that committed the       *)
(* version current at w's call.                                           *)
RepeatsUpdate(w) ==
    LET c == hist[op[w].id][seen[w]["call"]]
    IN /\ c.op = "update"
       /\ IsSome(c.state.root)
       /\ Untimed(Unwrap(c.arg)) = Untimed(op[w].agent)

(* C13: an update handed the same aggregate value as the update before it *)
(* does not fail on a row the first one left, and the version it commits  *)
(* holds the same capability rows and metadata rows as the first one's,   *)
(* one row per capability and per metadata key of the aggregate.          *)
C13_UpdateIdempotent ==
    \A w \in Workers :
        (Finished(w, "update") /\ RepeatsUpdate(w) /\ ExistedSinceCall(w)) =>
            LET id == op[w].id
                c == seen[w]["call"]
            IN /\ ~result[w].ok =>
                    result[w].cause.constraint \notin {"agent_capabilities", "agent_metadata"}
               /\ (/\ result[w].ok
                   /\ hist[id][c + 1].arg = Some(op[w].agent)) =>
                      /\ hist[id][c + 1].state.caps = hist[id][c].state.caps
                      /\ hist[id][c + 1].state.meta = hist[id][c].state.meta
                      /\ Cardinality(hist[id][c + 1].state.caps) =
                            Len(op[w].agent.capabilities)
                      /\ Cardinality(hist[id][c + 1].state.meta) =
                            Cardinality(DOMAIN op[w].agent.metadata)

(* Two updates with one value and two capabilities have committed in turn. *)
C13_Witness ==
    \E w \in Workers :
        /\ Finished(w, "update")
        /\ RepeatsUpdate(w)
        /\ result[w].ok
        /\ Len(hist[op[w].id]) = 3
        /\ hist[op[w].id][3].arg = Some(op[w].agent)
        /\ Cardinality(Slice(db, op[w].id).caps) = 2
        /\ Cardinality(Slice(db, op[w].id).meta) = 1

----------------------------------------------------------------------------
(* Properties of AgentManagementUseCase.                                   *)

AgentTransitions ==
    {"update_agent_status", "add_capability", "remove_capability",
     "update_agent_configuration"}

AgentReturned(w) == apc[w] = "idle" /\ aop[w].kind # "none"

(* C14: a transition of the agent use case that returned Ok had its       *)
(* repository update applied to a stored root row: every version that     *)
(* update committed holds the root row of the agent, also when a delete   *)
(* of the id committed between the transition's find_by_id and its        *)
(* update.                                                                 *)
C14_NoUpdateOfNothing ==
    \A w \in Workers :
        (/\ AgentReturned(w)
         /\ aop[w].kind \in AgentTransitions
         /\ ares[w].ok) =>
            \A k \in DOMAIN hist[aop[w].id] :
                (/\ k > seen[w]["call"]
                 /\ hist[aop[w].id][k].op = "update"
                 /\ hist[aop[w].id][k].arg = aloc[w]) =>
                    IsSome(hist[aop[w].id][k].state.root)

----------------------------------------------------------------------------
(* Properties of TaskManagementUseCase::get_task_statistics.               *)

TaskStatisticsReturned(w) ==
    /\ tpc[w] = "idle"
    /\ top[w].kind = "get_task_statistics"
    /\ tres[w].ok

PerStatusTasks(s) ==
    s.pending_tasks + s.running_tasks + s.completed_tasks
        + s.failed_tasks + s.cancelled_tasks

(* C16: get_task_statistics whose queries all read the same rows of the   *)
(* task repository returns per-status counts (pending, running, completed, *)
(* failed, cancelled) whose sum is total_tasks; and when the repository    *)
(* holds no task, every counter it returns is 0.                           *)
C16_TaskStatisticsConsistent ==
    \A w \in Workers :
        (TaskStatisticsReturned(w) /\ top[w].steady) =>
            LET s == tres[w].v
                rows == Unwrap(top[w].rows)
            IN /\ PerStatusTasks(s) = s.total_tasks
               /\ (\A i \in TaskIds : rows[i] = None) =>
                      /\ s.total_tasks = 0
                      /\ PerStatusTasks(s) = 0

(* Statistics over a repository that holds a Cancelled task and another   *)
(* task. *)
C16_Witness ==
    \E w \in Workers :
        /\ TaskStatisticsReturned(w)
        /\ top[w].steady
        /\ task_repo = "store"
        /\ tres[w].v.total_tasks = 2
        /\ tres[w].v.cancelled_tasks = 1
        /\ tres[w].v.pending_tasks = 1

----------------------------------------------------------------------------
(* Properties of AgentManagementUseCase::get_agent_statistics.             *)

AgentStatisticsReturned(w) ==
    /\ apc[w] = "idle"
    /\ aop[w].kind = "get_agent_statistics"
    /\ ares[w].ok

PerStatusAgents(s) ==
    s.active_agents + s.inactive_agents + s.training_agents + s.error_agents

(* C17: get_agent_statistics whose queries all read the same repository   *)
(* state returns per-status counts that cover every AgentStatus, so their *)
(* sum is total_agents; and when the repository holds no agent, every     *)
(* counter it returns is 0.                                                *)
C17_AgentStatisticsCoverEveryStatus ==
    \A w \in Workers :
        (AgentStatisticsReturned(w) /\ aop[w].steady) =>
            LET s == ares[w].v
            IN /\ PerStatusAgents(s) = s.total_agents
               /\ s.total_agents = 0 => PerStatusAgents(s) = 0

----------------------------------------------------------------------------
(* The agent use case over a repository that holds no agents.             *)

(* No agent is stored and none ever was. *)
HoldsNoAgents ==
    IF agent_repo = "mock" THEN MockAgentRepository_agents = {}
    ELSE \A i \in AgentIds : Len(hist[i]) = 1 /\ db.agents[i] = None

GatedAgentMethods == AgentTransitions \cup {"delete_agent"}

----------------------------------------------------------------------------
(* The end-to-end scenario: one client issues create_agent, create_task   *)
(* for that agent, start_task and complete_task of that task and then     *)
(* get_task_statistics, each request after the one before it returned,    *)
(* against the use cases of main.rs (SqlxAgentRepository; the task        *)
(* repository is the mock of main.rs or one that keeps its rows).         *)

Client == FirstWorker

ScenarioCreateAgent ==
    /\ acalls = 0
    /\ create_agent(Client)

ScenarioCreateTask ==
    /\ tcalls = 0
    /\ apc[Client] = "idle"
    /\ aop[Client].kind = "create_agent"
    /\ ares[Client].ok
    /\ create_task(Client)
    /\ top'[Client].request.agent_id = ares[Client].v.id

ScenarioStartTask ==
    /\ tcalls = 1
    /\ top[Client].kind = "create_task"
    /\ tres[Client].ok
    /\ start_task(Client)
    /\ top'[Client].id = tres[Client].v.id

ScenarioCompleteTask ==
    /\ tcalls = 2
    /\ top[Client].kind = "start_task"
    /\ complete_task(Client)
    /\ top'[Client].id = top[Client].id

ScenarioStatistics ==
    /\ tcalls = 3
    /\ top[Client].kind = "complete_task"
    /\ get_task_statistics(Client)

NextScenario ==
    \/ ScenarioCreateAgent
    \/ ScenarioCreateTask
    \/ ScenarioStartTask
    \/ ScenarioCompleteTask
    \/ ScenarioStatistics
    \/ AgentValidate(Client)
    \/ AgentService(Client)
    \/ AgentSave(Client)
    \/ AgentSaved(Client)
    \/ Execute(Client)
    \/ Fail(Client)
    \/ Commit(Client)
    \/ TaskFindAgent(Client)
    \/ TaskFind(Client)
    \/ TaskService(Client)
    \/ TaskSave(Client)
    \/ TaskCount(Client)
    \/ TaskCountByStatus(Client)

InitScenario ==
    /\ InitRepo /\ InitTask /\ InitLearn /\ InitAgent
    /\ learning_repo = "mock" /\ agent_repo = "sqlx"

SpecScenario == InitScenario /\ [][NextScenario]_vars

ScenarioReturned(kind) ==
    /\ tpc[Client] = "idle"
    /\ top[Client].kind = kind

(* C15: in the scenario the created agent is Active; create_task returns  *)
(* the task and stores it Pending; start_task returns it and stores it    *)
(* Running with started_at set; complete_task returns it and stores it    *)
(* Completed with completed_at set and output_data the supplied payload;  *)
(* get_task_statistics then reports completed_tasks = 1 and pending,      *)
(* running, failed and cancelled 0.                                        *)
C15_EndToEndScenario ==
    /\ (apc[Client] = "idle" /\ aop[Client].kind = "create_agent" /\ ares[Client].ok) =>
            ares[Client].v.status = "Active"
    /\ ScenarioReturned("create_task") =>
            /\ tres[Client].ok
            /\ tres[Client].v.status = "Pending"
            /\ tasks[tres[Client].v.id] = Some(tres[Client].v)
    /\ ScenarioReturned("start_task") =>
            /\ tres[Client].ok
            /\ tres[Client].v.status = "Running"
            /\ IsSome(tres[Client].v.started_at)
            /\ tasks[top[Client].id] = Some(tres[Client].v)
    /\ ScenarioReturned("complete_task") =>
            /\ tres[Client].ok
            /\ tres[Client].v.status = "Completed"
            /\ IsSome(tres[Client].v.completed_at)
            /\ tres[Client].v.output_data = Some(top[Client].output)
            /\ tasks[top[Client].id] = Some(tres[Client].v)
    /\ ScenarioReturned("get_task_statistics") =>
            /\ tres[Client].ok
            /\ tres[Client].v.completed_tasks = 1
            /\ tres[Client].v.pending_tasks = 0
            /\ tres[Client].v.running_tasks = 0
            /\ tres[Client].v.failed_tasks = 0
            /\ tres[Client].v.cancelled_tasks = 0

(* The same over the wiring of main.rs alone: the statistics at the end   *)
(* of the scenario.                                                        *)
C15_ScenarioStatistics ==
    (task_repo = "mock" /\ ScenarioReturned("get_task_statistics")) =>
        tres[Client].v.completed_tasks = 1

----------------------------------------------------------------------------
(* The three use cases of the API.  A run serves the requests of one of   *)
(* them, concurrently; the other two are idle and hold the repositories   *)
(* main.rs constructs them with.                                           *)

UseCases == {"agent", "task", "learning"}

InitUseCases ==
    /\ InitRepo /\ InitTaskIdle /\ InitLearnIdle /\ InitAgentIdle
    /\ \E serving \in UseCases :
        /\ acalls = IF serving = "agent" THEN 0 ELSE MaxAgentCalls
        /\ tcalls = IF serving = "task" THEN 0 ELSE MaxTaskCalls
        /\ lcalls = IF serving = "learning" THEN 0 ELSE MaxLearningCalls
        /\ serving # "task" => task_repo = "mock"
        /\ serving # "learning" => learning_repo = "mock"

NextUseCases ==
    \/ \E w \in Workers : create_agent(w)
    \/ \E w \in Workers : update_agent_status(w)
    \/ \E w \in Workers : add_capability(w)
    \/ \E w \in Workers : remove_capability(w)
    \/ \E w \in Workers : update_agent_configuration(w)
    \/ \E w \in Workers : delete_agent(w)
    \/ \E w \in Workers : AgentValidate(w)
    \/ \E w \in Workers : AgentFind(w)
    \/ \E w \in Workers : AgentFound(w)
    \/ \E w \in Workers : AgentService(w)
    \/ \E w \in Workers : AgentSave(w)
    \/ \E w \in Workers : AgentSaved(w)
    \/ \E w \in Workers : Execute(w)
    \/ \E w \in Workers : Fail(w)
    \/ \E w \in Workers : DeadlockDetected(w)
    \/ \E w \in Workers : Commit(w)
    \/ \E w \in Workers : Query(w)
    \/ NextTask
    \/ NextLearn

SpecUseCases == InitUseCases /\ [][NextUseCases]_vars

----------------------------------------------------------------------------
(* The existence gate of the use cases.                                    *)

GatedTaskMutations == {"prioritize_task", "delete_task"}
GatedLearningMutations ==
    {"update_learning_progress", "complete_learning_session",
     "save_model_snapshot", "delete_learning_session"}

(* find_by_id of the agent use-case method of w found no agent. *)
AgentNotStored(w) ==
    \E i \in DOMAIN atrace[w] : atrace[w][i] = Called("agent_repo.find_by_id", Ok(None))

C18_TaskGateReached ==
    \E w \in Workers :
        /\ top[w].kind = "delete_task"
        /\ task_repo = "store"
        /\ \E i \in TaskIds : IsSome(tasks[i])
        /\ Len(ttrace[w]) = 1 /\ ttrace[w][1].ret = None
        /\ tres[w].err.kind = "NotFound"

C18_LearningGateReached ==
    \E w \in Workers :
        /\ lop[w].kind = "save_model_snapshot"
        /\ learning_repo = "store"
        /\ \E i \in SessionIds : IsSome(sessions[i])
        /\ Len(ltrace[w]) = 1 /\ ltrace[w][1].ret = None
        /\ lres[w].err.kind = "NotFound"

----------------------------------------------------------------------------
(* The task and learning use cases over repositories that find no row.    *)

(* find_by_id of every repository returns no row, whatever the id. *)
FindsNoRow ==
    /\ HoldsNoAgents
    /\ task_repo = "mock"
    /\ learning_repo = "mock"

TaskReturned(w, kind) == tpc[w] = "idle" /\ top[w].kind = kind
LearningReturned(w, kind) == lpc[w] = "idle" /\ lop[w].kind = kind

C20_LearningReached ==
    \E w \in Workers :
        /\ FindsNoRow
        /\ agent_repo = "mock"
        /\ LearningReturned(w, "start_learning_session")
        /\ lres[w].err = NotFound("Agent")

----------------------------------------------------------------------------
(* Cancellation of the units of work of SqlxAgentRepository.               *)

WasDropped(r) == ~r.ok /\ "future" \in DOMAIN r.cause
Cancelled(w) == pc[w] = 0 /\ WasDropped(result[w])

(* C24: a create, update or delete that is cancelled after any number of  *)
(* its statements and before its commit leaves no trace: the step that    *)
(* cancels it changes no committed row and adds no committed version, and *)
(* once a call is cancelled the root, capability, configuration and       *)
(* metadata rows of every agent are those of its last committed version,  *)
(* which the cancelled call did not write.                                 *)
C24_CancellationSafety ==
    /\ [][\A w \in Workers :
            (pc[w] # 0 /\ WasDropped(result'[w])) => (db' = db /\ hist' = hist)]_vars
    /\ [](\A w \in Workers :
            Cancelled(w) =>
                \A id \in AgentIds : Slice(db, id) = Last(hist[id]).state)

(* An update cancelled after it replaced the capabilities and before its  *)
(* commit, the agent still stored as created.                              *)
C24_Witness ==
    \E w \in Workers :
        /\ Cancelled(w)
        /\ op[w].kind = "update"
        /\ IsSome(db.agents[op[w].id])
        /\ result[w].cause.at = "update_configuration"
        /\ \A v \in Workers : tx[v] = EmptyTx
        /\ Len(hist[op[w].id]) = 1

(* A delete cancelled before its commit. *)
C24_DeleteCancelled ==
    \E w \in Workers :
        /\ Cancelled(w)
        /\ op[w].kind = "delete"
        /\ result[w].cause.at = "commit"
        /\ IsSome(db.agents[op[w].id])

----------------------------------------------------------------------------
(* SqlxAgentRepository::delete.                                            *)

(* No version of the id committed since the call of w began holds a root  *)
(* row.                                                                    *)
AbsentSinceCall(w) ==
    \A k \in DOMAIN hist[op[w].id] :
        k >= seen[w]["call"] => hist[op[w].id][k].state.root = None

(* C25: delete(id) of an id that has no stored root row returns Ok, and   *)
(* no step of a delete changes a root, capability, configuration or       *)
(* metadata row of another agent; the commit of a delete of an id without *)
(* a root row changes no row at all.                                       *)
C25_DeleteOfNothingSucceeds ==
    /\ [](\A w \in Workers :
            (Finished(w, "delete") /\ AbsentSinceCall(w)) => result[w] = Ok("unit"))
    /\ [][\A w \in Workers :
            (StepOf(w) /\ op[w].kind = "delete") =>
                /\ \A j \in AgentIds \ {op[w].id} : Slice(db', j) = Slice(db, j)
                /\ Slice(db, op[w].id).root = None => db' = db]_vars

(* delete of an id that is not stored, beside an agent that is. *)
C25_Witness ==
    \E w \in Workers :
        /\ Finished(w, "delete")
        /\ AbsentSinceCall(w)
        /\ result[w].ok
        /\ Len(hist[op[w].id]) = seen[w]["call"] + 1
        /\ \E j \in AgentIds \ {op[w].id} : IsSome(db.agents[j])

(* The DELETE statements delete(id) has issued when it is at statement i. *)
IssuedBy(w) == {DeleteStatements[i] : i \in 1..(pc[w] - 1)}

NoRows == [root |-> None, caps |-> {}, cfg |-> None, meta |-> {}]

(* Version k of the id was committed by a delete during which no other    *)
(* write of the id committed.                                              *)
DeletedAt(id, k) == hist[id][k].op = "delete" /\ hist[id][k].since = k - 1

(* C26: delete(id) issues DELETE on the metadata rows, then on the        *)
(* capability rows, then on the configuration row and only then on the    *)
(* root row, all on one transaction: the root row is deleted only after   *)
(* the three dependent deletes, and no statement of a delete changes a    *)
(* committed row before the commit.  Once it has committed, no other      *)
(* write of the id having committed since its call, no row keyed by id is *)
(* left in any of the four collections, and a find_by_id(id) that reads   *)
(* that version returns None.                                              *)
C26_DeleteDependentsFirst ==
    /\ [](\A w \in Workers :
            (Running(w) /\ op[w].kind = "delete") =>
                /\ Cur(w) = "delete_capabilities" => IssuedBy(w) = {"delete_metadata"}
                /\ Cur(w) = "delete_configuration" =>
                        IssuedBy(w) = {"delete_metadata", "delete_capabilities"}
                /\ Cur(w) = "delete_agent" =>
                        IssuedBy(w) = {"delete_metadata", "delete_capabilities",
                                       "delete_configuration"}
                /\ Cur(w) = "commit" => "delete_agent" \in IssuedBy(w)
                /\ DOMAIN tx[w].agents # {} => Cur(w) = "commit")
    /\ [][\A w \in Workers :
            (StepOf(w) /\ op[w].kind = "delete") =>
                IF result'[w] = Ok("unit")
                THEN Len(hist[op[w].id]) = seen[w]["call"] => Slice(db', op[w].id) = NoRows
                ELSE db' = db]_vars
    /\ [](\A id \in AgentIds : \A k \in DOMAIN hist[id] :
            DeletedAt(id, k) => hist[id][k].state = NoRows)
    /\ [](\A w \in Workers :
            (/\ Finished(w, "find_by_id")
             /\ "select_agent" \in DOMAIN seen[w]
             /\ DeletedAt(op[w].id, seen[w]["select_agent"])) =>
                result[w] = Ok(None))

(* A delete of a stored agent with capabilities and metadata committed,   *)
(* and a find_by_id of the id after it.                                    *)
C26_Witness ==
    \E w, v \in Workers :
        /\ Finished(w, "delete") /\ result[w].ok
        /\ Len(hist[op[w].id]) = 2
        /\ hist[op[w].id][1].state.caps # {}
        /\ hist[op[w].id][1].state.meta # {}
        /\ hist[op[w].id][2].op = "delete"
        /\ Finished(v, "find_by_id") /\ op[v].id = op[w].id
        /\ "select_agent" \in DOMAIN seen[v]
        /\ seen[v]["select_agent"] = 2
        /\ result[v] = Ok(None)

(* ---------------------------------------------------------------------- *)
(* find_by_id fetched a root row and its fetch_one of the configuration   *)
(* found no row.                                                           *)
ConfigurationMissing(w) ==
    /\ Finished(w, "find_by_id")
    /\ ~result[w].ok
    /\ result[w].cause = SqlxRowNotFound

(* C27: a find_by_id that read a root row of the id and then found no     *)
(* configuration row returns an error, and the error is not of the        *)
(* NotFound kind; it returns neither Ok(None) nor an aggregate.           *)
C27_CorruptIsNotNotFound ==
    \A w \in Workers :
        ConfigurationMissing(w) => result[w].err.kind # "NotFound"

(* The same read returns an error under either conversion: never Ok(None) *)
(* and never an aggregate with a configuration it did not read.           *)
C27_CorruptIsAnError ==
    [][\A w \in Workers :
        (/\ Running(w) /\ op[w].kind = "find_by_id"
         /\ Cur(w) = "select_configuration"
         /\ Slice(db, op[w].id).cfg = None
         /\ pc'[w] # pc[w]) =>
            (/\ pc'[w] = 0
             /\ ~result'[w].ok
             /\ result'[w].err.kind \in {"NotFound", "DatabaseError"})]_vars

C27_ConfigurationMissingReached ==
    \E w \in Workers : ConfigurationMissing(w) /\ result[w].err.kind = "DatabaseError"

(* ---------------------------------------------------------------------- *)
(* No two capabilities of the Vec share a name. *)
NamesDistinct(capabilities) ==
    \A i, j \in 1..Len(capabilities) :
        capabilities[i].name = capabilities[j].name => i = j

(* No two rows or records of the set share a name. *)
KeyedByName(S) == \A x, y \in S : x.name = y.name => x = y

----------------------------------------------------------------------------
(* Errors of the repositories in the use cases.                            *)

(* Entry e of a call trace is a repository call that returned an error. *)
RepositoryError(e) ==
    /\ e.call \in {"agent_repo.find_by_id", "agent_repo.find_by_status"}
    /\ ~e.ret.ok

(* No entry of the trace before its last is a repository error. *)
StopsAtError(trace) ==
    \A i \in 1..(Len(trace) - 1) : ~RepositoryError(trace[i])

C21_FindErrorReturned ==
    \E w \in Workers :
        /\ apc[w] = "idle"
        /\ atrace[w] # <<>>
        /\ RepositoryError(Last(atrace[w]))
        /\ ares[w] = Last(atrace[w]).ret

----------------------------------------------------------------------------
(* Repository writes of one invocation of a use-case method.               *)

RepositoryWrites ==
    {"agent_repo.create", "agent_repo.update", "agent_repo.delete",
     "task_repo.create", "task_repo.update", "task_repo.delete",
     "learning_repo.create", "learning_repo.update", "learning_repo.delete"}

WritesOf(trace) == {i \in DOMAIN trace : trace[i].call \in RepositoryWrites}

(* The invocation ended at its existence check or its validation call. *)
StoppedAtGate(r) == ~r.ok /\ r.cause = UseCaseError

(* The write is the last call of the invocation, and its only write. *)
AtMostOnce(trace) ==
    /\ Cardinality(WritesOf(trace)) <= 1
    /\ \A i \in WritesOf(trace) : i = Len(trace)

C22_TaskWroteOnce ==
    \E w \in Workers :
        /\ tpc[w] = "idle" /\ top[w].kind = "start_task"
        /\ tres[w].ok /\ WritesOf(ttrace[w]) = {Len(ttrace[w])}

C22_LearningStoppedAtGate ==
    \E w \in Workers :
        /\ lpc[w] = "idle" /\ lop[w].kind = "start_learning_session"
        /\ StoppedAtGate(lres[w]) /\ ltrace[w] # <<>> /\ WritesOf(ltrace[w]) = {}

----------------------------------------------------------------------------
(* The agent and learning use cases over domain services whose validation  *)
(* call may reject its input.                                              *)

InitValidation ==
    /\ InitRepo /\ InitTaskIdle /\ InitLearnIdle /\ InitAgentServices("validating")
    /\ task_repo = "mock" /\ tcalls = MaxTaskCalls
    /\ \E serving \in {"agent", "learning"} :
        /\ acalls = IF serving = "agent" THEN 0 ELSE MaxAgentCalls
        /\ lcalls = IF serving = "learning" THEN 0 ELSE MaxLearningCalls
        /\ serving # "learning" => learning_repo = "mock"

NextValidation ==
    \/ \E w \in Workers : create_agent(w)
    \/ \E w \in Workers : update_agent_status(w)
    \/ \E w \in Workers : add_capability(w)
    \/ \E w \in Workers : remove_capability(w)
    \/ \E w \in Workers : update_agent_configuration(w)
    \/ \E w \in Workers : delete_agent(w)
    \/ \E w \in Workers : AgentValidate(w)
    \/ \E w \in Workers : AgentFind(w)
    \/ \E w \in Workers : AgentFound(w)
    \/ \E w \in Workers : AgentService(w)
    \/ \E w \in Workers : AgentSave(w)
    \/ \E w \in Workers : AgentSaved(w)
    \/ \E w \in Workers : Execute(w)
    \/ \E w \in Workers : Fail(w)
    \/ \E w \in Workers : DeadlockDetected(w)
    \/ \E w \in Workers : Commit(w)
    \/ \E w \in Workers : Query(w)
    \/ NextLearn

SpecValidation == InitValidation /\ [][NextValidation]_vars

ValidationCalls ==
    {"agent_service.validate_agent_configuration",
     "learning_service.validate_training_data"}

(* Entry e of a call trace is a validation call that returned false. *)
Rejected(e) == e.call \in ValidationCalls /\ e.ret = FALSE

ValidationError(msg) ==
    Err([kind |-> "ValidationError", msg |-> msg], UseCaseError)

(* C23: create_agent whose validate_agent_configuration returned false,   *)
(* and start_learning_session of an existing agent whose                  *)
(* validate_training_data returned false, return ValidationError; the     *)
(* rejected call is the last of the invocation (no materializing service  *)
(* call, no repository create) and the step leaves the store unchanged.   *)
C23_CreateValidationGate ==
    /\ [](\A w \in Workers :
            /\ \A i \in DOMAIN atrace[w] :
                    Rejected(atrace[w][i]) =>
                        /\ i = Len(atrace[w])
                        /\ apc[w] = "idle"
                        /\ ares[w] = ValidationError("Invalid agent configuration")
            /\ \A i \in DOMAIN ltrace[w] :
                    Rejected(ltrace[w][i]) =>
                        /\ i = Len(ltrace[w])
                        /\ lpc[w] = "idle"
                        /\ lres[w] = ValidationError("Invalid training data"))
    /\ [][\A w \in Workers :
            IF apc[w] = "validate" /\ apc'[w] = "idle"
            THEN db' = db /\ tx' = tx /\ hist' = hist /\ started' = started
            ELSE TRUE]_vars
    /\ [][\A w \in Workers :
            IF lpc[w] = "validate" /\ lpc'[w] = "idle"
            THEN sessions' = sessions /\ db' = db
            ELSE TRUE]_vars

C23_Witness ==
    \E w \in Workers :
        /\ apc[w] = "idle"
        /\ aop[w].kind = "create_agent"
        /\ Len(atrace[w]) = 1
        /\ Rejected(atrace[w][1])
        /\ ares[w] = ValidationError("Invalid agent configuration")

C23_TrainingDataRejected ==
    \E w \in Workers :
        /\ lpc[w] = "idle"
        /\ lop[w].kind = "start_learning_session"
        /\ Len(ltrace[w]) = 2
        /\ ltrace[w][1].call = "agent_repo.find_by_id"
        /\ IsSome(ltrace[w][1].ret.v)
        /\ Rejected(ltrace[w][2])
        /\ lres[w] = ValidationError("Invalid training data")
        /\ \A id \in SessionIds : sessions[id] = None

----------------------------------------------------------------------------
(* Fields of a Task (domain/entities.rs).                                  *)

TaskFieldInvariant(t) ==
    /\ IsSome(t.started_at) => t.status # "Pending"
    /\ IsSome(t.completed_at) => t.status \in {"Completed", "Failed", "Cancelled"}
    /\ IsSome(t.output_data) => t.status = "Completed"
    /\ IsSome(t.error_message) => t.status = "Failed"

TaskReturningMethods ==
    {"create_task", "start_task", "complete_task", "fail_task", "cancel_task",
     "prioritize_task"}

(* C28: every Task a method of the task use case returned, handed to the  *)
(* repository or stored has started_at only when its status is not        *)
(* Pending, completed_at only when Completed, Failed or Cancelled,        *)
(* output_data only when Completed and error_message only when Failed.    *)
C28_TaskFieldInvariant ==
    /\ \A id \in TaskIds : IsSome(tasks[id]) => TaskFieldInvariant(Unwrap(tasks[id]))
    /\ \A w \in Workers :
        /\ IsSome(tloc[w]) => TaskFieldInvariant(Unwrap(tloc[w]))
        /\ (tpc[w] = "idle" /\ top[w].kind \in TaskReturningMethods /\ tres[w].ok) =>
                TaskFieldInvariant(tres[w].v)

C28_Witness ==
    \E w \in Workers :
        /\ tpc[w] = "idle" /\ top[w].kind = "complete_task" /\ tres[w].ok
        /\ tres[w].v.status = "Completed"
        /\ IsSome(tres[w].v.output_data) /\ IsSome(tres[w].v.completed_at)
        /\ tasks[top[w].id] = Some(tres[w].v)

C28_FailedTaskStored ==
    \E w \in Workers :
        /\ tpc[w] = "idle" /\ top[w].kind = "fail_task" /\ tres[w].ok
        /\ IsSome(tres[w].v.error_message) /\ IsSome(tres[w].v.started_at)
        /\ tasks[top[w].id] = Some(tres[w].v)

----------------------------------------------------------------------------
(* Error responses of the web API (presentation/web/api.rs) and the status *)
(* table of Error (shared/error.rs).                                       *)

(* Error::http_status_code *)
Error_http_status_code(kind) ==
    CASE kind = "ValidationError" -> 400
      [] kind = "AuthenticationError" -> 401
      [] kind = "AuthorizationError" -> 403
      [] kind = "NotFound" -> 404
      [] kind = "Conflict" -> 409
      [] kind = "RateLimitExceeded" -> 429
      [] kind = "InvalidInput" -> 400
      [] kind = "ResourceUnavailable" -> 503
      [] kind = "Timeout" -> 408
      [] kind = "NetworkError" -> 503
      [] kind = "ParseError" -> 400
      [] kind = "BusinessLogicError" -> 400
      [] kind = "ExternalServiceError" -> 502
      [] OTHER -> 500

(* Display of sqlx::Error: the text the driver and the server produced. *)
SqlxError_to_string(e) ==
    IF e.sqlx = "RowNotFound"
    THEN <<"no rows returned by a query that expected to return at least one row">>
    ELSE <<"error returned from database: ", e.code, e.constraint>>

(* Error::error_message, which Display writes *)
Error_error_message(err) ==
    CASE err.kind = "ValidationError" -> <<"Validation failed: ", err.msg>>
      [] err.kind = "NotFound" -> <<"Resource not found: ", err.msg>>
      [] err.kind = "Conflict" -> <<"Conflict occurred: ", err.msg>>
      [] err.kind = "DatabaseError" ->
            <<"Database error: ", SqlxError_to_string(err.source)>>
      [] err.kind = "SerializationError" -> <<"Serialization error: ", "from_value">>
      [] OTHER -> <<err.kind, err>>

(* impl From<Error> for ApiError *)
ApiError_from(err) ==
    CASE err.kind \in {"ValidationError", "AuthenticationError", "AuthorizationError",
                       "Conflict"} ->
            [variant |-> "BadRequest", msg |-> err.msg]
      [] err.kind = "NotFound" -> [variant |-> "NotFound", msg |-> err.msg]
      [] OTHER -> [variant |-> "InternalServerError", msg |-> Error_error_message(err)]

(* impl IntoResponse for ApiError *)
ApiError_into_response(e) ==
    LET status == CASE e.variant = "BadRequest" -> 400
                    [] e.variant = "NotFound" -> 404
                    [] e.variant = "InternalServerError" -> 500
    IN [status |-> status, body |-> [error |-> e.msg, status |-> status]]

(* A handler: let x = state.<use case>.<method>(..).await?; Ok(Json(x)) *)
HandlerResponse(r) ==
    IF r.ok THEN [status |-> 200, body |-> r.v]
    ELSE ApiError_into_response(ApiError_from(r.err))

(* The error kinds whose responses are to be told apart. *)
DistinguishedKinds ==
    {"ValidationError", "NotFound", "Conflict", "DatabaseError",
     "AuthenticationError", "AuthorizationError"}

(* The request of w to the agent API was answered with an error of one of *)
(* those kinds.                                                            *)
AnsweredError(w) ==
    /\ apc[w] = "idle" /\ aop[w].kind # "none"
    /\ ~ares[w].ok /\ ares[w].err.kind \in DistinguishedKinds

(* C30: errors of two different kinds among ValidationError, NotFound,    *)
(* Conflict, DatabaseError, AuthenticationError and AuthorizationError    *)
(* are answered with different HTTP status codes, and errors of one kind  *)
(* with the same status code.                                              *)
C30_DistinguishableResponses ==
    \A w1, w2 \in Workers :
        (AnsweredError(w1) /\ AnsweredError(w2)) =>
            (ares[w1].err.kind = ares[w2].err.kind
                <=> HandlerResponse(ares[w1]).status = HandlerResponse(ares[w2]).status)

(* The part of C30 that holds: one kind, one status code. *)
C30_StableStatusPerKind ==
    \A w1, w2 \in Workers :
        (AnsweredError(w1) /\ AnsweredError(w2)
         /\ ares[w1].err.kind = ares[w2].err.kind) =>
            HandlerResponse(ares[w1]).status = HandlerResponse(ares[w2]).status

(* The table of Error::http_status_code, which no handler consults, tells *)
(* the six kinds apart.                                                    *)
C30_StatusTableDistinct ==
    \A w1, w2 \in Workers :
        (AnsweredError(w1) /\ AnsweredError(w2)) =>
            (ares[w1].err.kind = ares[w2].err.kind
                <=> Error_http_status_code(ares[w1].err.kind) =
                        Error_http_status_code(ares[w2].err.kind))

C30_ValidationAndConflictAnswered ==
    \E w1, w2 \in Workers :
        /\ AnsweredError(w1) /\ ares[w1].err.kind = "ValidationError"
        /\ AnsweredError(w2) /\ ares[w2].err.kind = "Conflict"
        /\ HandlerResponse(ares[w1]).status = 400
        /\ HandlerResponse(ares[w2]).status = 400

----------------------------------------------------------------------------
(* Responses to storage failures.                                          *)

(* The request of w to the agent API failed with Error::DatabaseError. *)
StorageFailure(w) ==
    /\ apc[w] = "idle" /\ aop[w].kind # "none"
    /\ ~ares[w].ok /\ ares[w].err.kind = "DatabaseError"

(* The errors the driver reports to the repository: no row for a query    *)
(* that expected one, a violated constraint, a deadlock.                   *)
DriverErrors ==
    {SqlxRowNotFound,
     SqlxDatabase("23505", "agents_name_key", NoPeer),
     SqlxDatabase("23503", "child_fkey", NoPeer),
     SqlxDatabase("40P01", "deadlock", NoPeer)}

(* C31: the response to a storage failure does not depend on the driver's *)
(* error: a request that failed with Error::DatabaseError is answered with *)
(* the status and the body that any other driver error would have been     *)
(* answered with.                                                          *)
C31_NoStorageDetailLeaks ==
    \A w \in Workers : \A e \in DriverErrors :
        StorageFailure(w) =>
            HandlerResponse(ares[w]) = HandlerResponse(Err(DeriveFrom(e), e))

(* The status of the response, which does not depend on the driver. *)
C31_StorageFailureStatus ==
    \A w \in Workers : \A e \in DriverErrors :
        StorageFailure(w) =>
            /\ HandlerResponse(ares[w]).status = 500
            /\ HandlerResponse(Err(DeriveFrom(e), e)).status = 500

(* A storage failure was answered, and its body names the driver's error. *)
C31_DriverErrorAnswered ==
    \E w \in Workers :
        /\ StorageFailure(w)
        /\ HandlerResponse(ares[w]).body.error =
                <<"Database error: ", SqlxError_to_string(ares[w].err.source)>>
        /\ \E e \in DriverErrors :
                SqlxError_to_string(e) # SqlxError_to_string(ares[w].err.source)

----------------------------------------------------------------------------
(* The classification of Error (shared/error.rs): every variant is         *)
(* classified by is_client_error and is_server_error and given a status    *)
(* code by http_status_code.                                               *)

(* enum Error *)
ErrorVariants ==
    {"DatabaseError", "RedisError", "SerializationError", "ConfigurationError",
     "ValidationError", "AuthenticationError", "AuthorizationError", "NotFound",
     "Conflict", "RateLimitExceeded", "InternalServerError", "ExternalServiceError",
     "Timeout", "InvalidInput", "ResourceUnavailable", "PluginError",
     "MachineLearningError", "NetworkError", "FileIOError", "ParseError",
     "EncryptionError", "DecryptionError", "ApiError", "BusinessLogicError"}

(* A value of the variant. *)
ErrorOf(variant) ==
    IF variant = "DatabaseError" THEN DeriveFrom(SqlxRowNotFound)
    ELSE [kind |-> variant, msg |-> "message"]

(* Error::is_client_error *)
Error_is_client_error(kind) ==
    kind \in {"ValidationError", "AuthenticationError", "AuthorizationError",
              "NotFound", "Conflict", "RateLimitExceeded", "InvalidInput",
              "ResourceUnavailable"}

(* Error::is_server_error *)
Error_is_server_error(kind) ==
    kind \in {"DatabaseError", "RedisError", "InternalServerError",
              "ExternalServiceError", "FileIOError", "EncryptionError",
              "DecryptionError", "MachineLearningError", "NetworkError"}

ErrorMethods == {"is_client_error", "is_server_error", "http_status_code"}

Error_method(name, kind) ==
    CASE name = "is_client_error" -> Error_is_client_error(kind)
      [] name = "is_server_error" -> Error_is_server_error(kind)
      [] name = "http_status_code" -> Error_http_status_code(kind)

(* Each worker holds an Error of some variant. *)
InitError ==
    /\ InitRepo /\ from_impl = "manual" /\ db = EmptyDb
    /\ InitTaskIdle /\ task_repo = "mock" /\ tcalls = MaxTaskCalls
    /\ InitLearnIdle /\ learning_repo = "mock" /\ lcalls = MaxLearningCalls
    /\ agent_repo = "mock" /\ services = "mock" /\ acalls = MaxAgentCalls
    /\ apc = [w \in Workers |-> "idle"]
    /\ aop = [w \in Workers |-> [kind |-> "none"]]
    /\ aloc = [w \in Workers |-> None]
    /\ ares \in [Workers -> {Err(ErrorOf(v), None) : v \in ErrorVariants}]
    /\ atrace = [w \in Workers |-> <<>>]

AppliedTo(w, name) == \E i \in 1..Len(atrace[w]) : atrace[w][i].call = name

(* error.<name>() on the Error w holds *)
ErrorApply(w, name) ==
    /\ ~AppliedTo(w, name)
    /\ atrace' = [atrace EXCEPT
           ![w] = Append(@, Called(name, Error_method(name, ares[w].err.kind)))]
    /\ UNCHANGED <<agent_repo, services, apc, aop, aloc, ares, acalls>>

(* error.is_client_error() *)
IsClientError(w) ==
    /\ ErrorApply(w, "is_client_error")
    /\ UNCHANGED <<repoVars, taskVars, learnVars>>

(* error.is_server_error() *)
IsServerError(w) ==
    /\ ErrorApply(w, "is_server_error")
    /\ UNCHANGED <<repoVars, taskVars, learnVars>>

(* error.http_status_code() *)
HttpStatusCode(w) ==
    /\ ErrorApply(w, "http_status_code")
    /\ UNCHANGED <<repoVars, taskVars, learnVars>>

NextError ==
    \E w \in Workers : IsClientError(w) \/ IsServerError(w) \/ HttpStatusCode(w)

SpecError == InitError /\ [][NextError]_vars

(* What error.<name>() returned to w. *)
Returned(w, name) ==
    LET i == CHOOSE j \in 1..Len(atrace[w]) : atrace[w][j].call = name
    IN atrace[w][i].ret

Classified(w) == \A name \in ErrorMethods : AppliedTo(w, name)

(* C39: for every Error variant, is_client_error implies a status code in  *)
(* 400..499, is_server_error implies a status code in 500..599, and no     *)
(* variant is both a client and a server error.                            *)
C39_ClassificationAgreesWithStatus ==
    \A w \in Workers :
        Classified(w) =>
            /\ Returned(w, "is_client_error") =>
                   Returned(w, "http_status_code") \in 400..499
            /\ Returned(w, "is_server_error") =>
                   Returned(w, "http_status_code") \in 500..599
            /\ ~(Returned(w, "is_client_error") /\ Returned(w, "is_server_error"))

(* The part that holds: server errors have 5xx codes and no variant is in  *)
(* both classes.                                                           *)
C39_ServerErrorsAre5xx ==
    \A w \in Workers :
        Classified(w) =>
            /\ Returned(w, "is_server_error") =>
                   Returned(w, "http_status_code") \in 500..599
            /\ ~(Returned(w, "is_client_error") /\ Returned(w, "is_server_error"))

(* The only client error outside 400..499 is ResourceUnavailable. *)
C39_ClientErrorsAre4xxButOne ==
    \A w \in Workers :
        (Classified(w) /\ Returned(w, "is_client_error")
            /\ ares[w].err.kind # "ResourceUnavailable") =>
                Returned(w, "http_status_code") \in 400..499

C39_ResourceUnavailableClassified ==
    \E w \in Workers :
        /\ Classified(w)
        /\ ares[w].err.kind = "ResourceUnavailable"
        /\ Returned(w, "is_client_error")
        /\ Returned(w, "http_status_code") = 503

----------------------------------------------------------------------------
(* The list queries of SqlxAgentRepository: find_all, find_by_type and     *)
(* find_by_status select root rows with one query on the pool and then     *)
(* call find_by_id for each row, four more queries each, every query at    *)
(* its own point in time.                                                  *)

ListQueries == {"find_all", "find_by_type", "find_by_status"}

SecondAgent == Agent("a2", "n2", TemplateA, 1)

(* The rows of two stores over disjoint keys. *)
Both(d, e) ==
    [t \in Tables |-> [k \in DOMAIN d[t] |-> IF IsSome(d[t][k]) THEN d[t][k] ELSE e[t][k]]]

SeededBoth == Both(Seeded(SeedAgent), Seeded(SecondAgent))

(* The stores the list queries start from: empty, one agent, or two agents *)
(* created one after the other.                                            *)
InitRepoList ==
    /\ from_impl \in FromImpls
    /\ \E stored \in 0..2 :
        /\ db = CASE stored = 0 -> EmptyDb
                  [] stored = 1 -> Seeded(SeedAgent)
                  [] stored = 2 -> SeededBoth
        /\ hist = [i \in AgentIds |->
                    IF stored >= 1 /\ i = SeedAgent.id
                    THEN <<Version("create", Some(SeedAgent), db, i, 0)>>
                    ELSE IF stored = 2 /\ i = SecondAgent.id
                    THEN <<Version("create", Some(SecondAgent), db, i, 0)>>
                    ELSE <<Version("init", None, EmptyDb, i, 0)>>]
        /\ clock = IF stored = 2 THEN 1 ELSE 0
    /\ tx = [w \in Workers |-> EmptyTx]
    /\ pc = [w \in Workers |-> 0]
    /\ op = [w \in Workers |-> [kind |-> "none"]]
    /\ loc = [w \in Workers |-> <<>>]
    /\ result = [w \in Workers |-> NoResult]
    /\ seen = [w \in Workers |-> <<>>]
    /\ started = 0

InitList ==
    /\ InitRepoList
    /\ InitTaskIdle /\ task_repo = "mock" /\ tcalls = MaxTaskCalls
    /\ InitLearnIdle /\ learning_repo = "mock" /\ lcalls = MaxLearningCalls
    /\ InitAgentIdle /\ agent_repo = "sqlx" /\ acalls = MaxAgentCalls

(* The committed version of every agent. *)
Versions == [i \in AgentIds |-> Len(hist[i])]

BeginList(w, o) ==
    /\ pc[w] = 0
    /\ started < MaxOps
    /\ started' = started + 1
    /\ op' = [op EXCEPT ![w] = o]
    /\ pc' = [pc EXCEPT ![w] = 1]
    /\ loc' = [loc EXCEPT ![w] = <<>>]
    /\ seen' = [seen EXCEPT ![w] = ("call" :> Versions)]
    /\ result' = [result EXCEPT ![w] = NoResult]
    /\ UNCHANGED <<db, tx, hist, from_impl, taskVars, learnVars, agentVars>>

(* SqlxAgentRepository::find_all() *)
CallFindAll(w) ==
    /\ BeginList(w, [kind |-> "find_all"])
    /\ UNCHANGED clock

(* SqlxAgentRepository::find_by_type(agent_type) *)
CallFindByType(w) ==
    \E t \in Templates :
        /\ BeginList(w, [kind |-> "find_by_type", agent_type |-> t.agent_type])
        /\ UNCHANGED clock

(* SqlxAgentRepository::find_by_status(status) *)
CallFindByStatus(w) ==
    \E s \in {"Active", "Inactive"} :
        /\ BeginList(w, [kind |-> "find_by_status", status |-> s])
        /\ UNCHANGED clock

(* Equality of two JSON values. *)
JsonEq(a, b) == IF a.json = b.json THEN a.v = b.v ELSE FALSE

(* WHERE agent_type = $1 / WHERE status = $1 / no WHERE clause *)
Where(o, row) ==
    CASE o.kind = "find_all" -> TRUE
      [] o.kind = "find_by_type" -> JsonEq(row.agent_type, AgentTypeToValue(o.agent_type))
      [] o.kind = "find_by_status" -> JsonEq(row.status, AgentStatusToValue(o.status))

Orders(S) ==
    {s \in [1..Cardinality(S) -> S] : \A i, j \in DOMAIN s : s[i] = s[j] => i = j}

(* ORDER BY created_at ASC *)
OrderByCreatedAtAsc(S, d) ==
    {s \in Orders(S) : \A i, j \in DOMAIN s :
        i < j => Unwrap(d.agents[s[i]]).created_at <= Unwrap(d.agents[s[j]]).created_at}

(* ORDER BY created_at DESC: rows of equal created_at come in any order *)
OrderByCreatedAtDesc(S, d) ==
    {s \in Orders(S) : \A i, j \in DOMAIN s :
        i < j => Unwrap(d.agents[s[i]]).created_at >= Unwrap(d.agents[s[j]]).created_at}

ListRunning(w) == op[w].kind \in ListQueries /\ pc[w] > 0

(* let agent_rows = sqlx::query!(SELECT .. FROM agents ..).fetch_all(&self.pool).await?; *)
SelectRows(w) ==
    /\ ListRunning(w)
    /\ pc[w] = 1
    /\ LET ids == {i \in AgentIds :
                     IsSome(db.agents[i]) /\ Where(op[w], Unwrap(db.agents[i]))}
       IN \E rows \in OrderByCreatedAtDesc(ids, db) :
            /\ seen' = [seen EXCEPT ![w] = ("select" :> Versions) @@ @]
            /\ IF rows = <<>>
               THEN Finish(w, Ok(<<>>))
               ELSE /\ pc' = [pc EXCEPT ![w] = 2]
                    /\ loc' = [loc EXCEPT ![w] =
                                 [agent_rows |-> rows, agents |-> <<>>, row |-> <<>>]]
                    /\ UNCHANGED result
    /\ UNCHANGED <<db, tx, op, hist, started, clock, from_impl, taskVars, learnVars, agentVars>>

(* for row in agent_rows: the next iteration, or Ok(agents) after the last *)
NextRow(w, agents) ==
    IF Len(loc[w].agent_rows) = 1
    THEN Finish(w, Ok(agents))
    ELSE /\ loc' = [loc EXCEPT ![w] =
                     [agent_rows |-> Tail(loc[w].agent_rows), agents |-> agents,
                      row |-> <<>>]]
         /\ UNCHANGED <<pc, result>>

(* One query of self.find_by_id(&AgentId(row.id)).await? inside the loop;  *)
(* after the last, agents.push(agent).                                     *)
ReRead(w) ==
    /\ ListRunning(w)
    /\ pc[w] = 2
    /\ LET id == Head(loc[w].agent_rows)
           q == FindQueries[Cardinality(DOMAIN loc[w].row) + 1]
           got == Fetch(q, id)
           l == (q :> got) @@ loc[w].row
       IN IF q = "select_agent" /\ got = None
          THEN NextRow(w, loc[w].agents)
          ELSE IF q = "select_configuration" /\ got = None
          THEN Finish(w, Err(ErrorFrom(SqlxRowNotFound), SqlxRowNotFound))
          ELSE IF q = Last(FindQueries)
          THEN IF Assemble(l).ok
               THEN NextRow(w, Append(loc[w].agents, Unwrap(Assemble(l).v)))
               ELSE Finish(w, Assemble(l))
          ELSE /\ loc' = [loc EXCEPT ![w].row = l]
               /\ UNCHANGED <<pc, result>>
    /\ UNCHANGED <<db, tx, op, hist, seen, started, clock, from_impl,
                   taskVars, learnVars, agentVars>>

NextList ==
    \/ \E w \in Workers : CallFindAll(w)
    \/ \E w \in Workers : CallFindByType(w)
    \/ \E w \in Workers : CallFindByStatus(w)
    \/ \E w \in Workers : SelectRows(w)
    \/ \E w \in Workers : ReRead(w)
    \/ \E w \in Workers : CallCreate(w)
    \/ \E w \in Workers : CallUpdate(w)
    \/ \E w \in Workers : CallDelete(w)
    \/ \E w \in Workers : Execute(w)
    \/ \E w \in Workers : Fail(w)
    \/ \E w \in Workers : DeadlockDetected(w)
    \/ \E w \in Workers : Commit(w)

SpecList == InitList /\ [][NextList]_vars

(* The list query of w has returned Ok(agents). *)
Listed(w, kind) == Finished(w, kind) /\ result[w].ok

(* No write committed between the call and its return. *)
QuietSinceCall(w) == seen[w]["call"] = Versions

StoredIds == {i \in AgentIds : IsSome(db.agents[i])}

(* C32: find_all returns every stored agent exactly once, as a full        *)
(* aggregate, newest first: when no write commits during the call, the     *)
(* ids of the returned sequence are the ids of the stored root rows, no    *)
(* id comes twice, each element is the aggregate find_by_id assembles from *)
(* the stored rows of its id, and created_at does not increase along the   *)
(* sequence.  Whatever commits during the call, no id comes twice.         *)
C32_FindAllNewestFirst ==
    \A w \in Workers :
        Listed(w, "find_all") =>
            LET agents == result[w].v
            IN /\ \A i, j \in DOMAIN agents : agents[i].id = agents[j].id => i = j
               /\ QuietSinceCall(w) =>
                    /\ {agents[i].id : i \in DOMAIN agents} = StoredIds
                    /\ \A i \in DOMAIN agents :
                          Some(agents[i]) = SnapshotOf(Slice(db, agents[i].id)).v
                    /\ \A i, j \in DOMAIN agents :
                          i < j => agents[i].created_at >= agents[j].created_at

(* find_all returned two agents of different creation times. *)
C32_Witness ==
    \E w \in Workers :
        /\ Listed(w, "find_all") /\ QuietSinceCall(w)
        /\ Len(result[w].v) = 2
        /\ result[w].v[1].created_at > result[w].v[2].created_at

(* The returned aggregates satisfy the filter of the query. *)
Matches(o, agent) ==
    CASE o.kind = "find_by_type" -> agent.agent_type = o.agent_type
      [] o.kind = "find_by_status" -> agent.status = o.status
      [] OTHER -> TRUE

(* C37: find_by_status(s) returns only agents whose status is s and        *)
(* find_by_type(t) only agents whose type is t, also when an update of the *)
(* agent commits between the selection of the ids and the re-read of the   *)
(* id through find_by_id.                                                  *)
C37_ReturnedMatchFilter ==
    \A w \in Workers :
        (Listed(w, "find_by_status") \/ Listed(w, "find_by_type")) =>
            \A i \in DOMAIN result[w].v : Matches(op[w], result[w].v[i])

(* The part that holds: when no write commits during the call, the query  *)
(* returns exactly the stored agents that satisfy its filter.              *)
C37_QuietExactlyMatching ==
    \A w \in Workers :
        ((Listed(w, "find_by_status") \/ Listed(w, "find_by_type"))
            /\ QuietSinceCall(w)) =>
            LET agents == result[w].v
            IN /\ \A i \in DOMAIN agents : Matches(op[w], agents[i])
               /\ {agents[i].id : i \in DOMAIN agents} =
                     {id \in StoredIds : Where(op[w], Unwrap(db.agents[id]))}
               /\ \A i \in DOMAIN agents :
                     Some(agents[i]) = SnapshotOf(Slice(db, agents[i].id)).v

(* find_by_status(s) returned an agent whose status is not s: an update    *)
(* committed after the selection.                                          *)
C37_StatusChangedBeforeReRead ==
    \E w \in Workers :
        /\ Listed(w, "find_by_status")
        /\ seen[w]["select"] # Versions
        /\ \E i \in DOMAIN result[w].v : result[w].v[i].status # op[w].status

C37_TypeChangedBeforeReRead ==
    \E w \in Workers :
        /\ Listed(w, "find_by_type")
        /\ \E i \in DOMAIN result[w].v : result[w].v[i].agent_type # op[w].agent_type

----------------------------------------------------------------------------
(* Referential integrity of the committed rows.                            *)

(* Every child row belongs to a root row. *)
NoOrphanRows(d) ==
    /\ \A k \in CapKeys : IsSome(d.agent_capabilities[k]) => IsSome(d.agents[k[1]])
    /\ \A i \in AgentIds : IsSome(d.agent_configurations[i]) => IsSome(d.agents[i])
    /\ \A k \in MetaTableKeys : IsSome(d.agent_metadata[k]) => IsSome(d.agents[k[1]])

(* Every root row has its configuration row (the table is keyed by         *)
(* agent_id, so it has one at most).                                       *)
NoMissingConfiguration(d) ==
    \A i \in AgentIds : IsSome(d.agents[i]) => IsSome(d.agent_configurations[i])

(* C33: in every committed state reachable by interleavings of create,     *)
(* update and delete (update of an id without a root row and update racing *)
(* with delete included), every capability, configuration and metadata row *)
(* belongs to an existing root row and every root row has exactly one      *)
(* configuration row.                                                      *)
C33_NoOrphanOrMissingRows == NoOrphanRows(db) /\ NoMissingConfiguration(db)

(* An update of an id without a root row has returned: its first child     *)
(* INSERT violated the foreign key and nothing was committed.              *)
C33_UpdateOfNothingRejected ==
    \E w \in Workers :
        /\ Finished(w, "update") /\ ~result[w].ok
        /\ hist[op[w].id][seen[w]["call"]].state.root = None
        /\ Len(hist[op[w].id]) = seen[w]["call"]
        /\ result[w].cause = SqlxDatabase("23503", result[w].cause.constraint, NoPeer)

(* An update and a delete of one stored id, called on the same committed   *)
(* version, have both committed.                                           *)
C33_Witness ==
    \E w, v \in Workers :
        /\ Finished(w, "update") /\ Finished(v, "delete")
        /\ op[w].id = op[v].id
        /\ seen[w]["call"] = seen[v]["call"]
        /\ IsSome(hist[op[w].id][seen[w]["call"]].state.root)
        /\ result[w].ok /\ result[v].ok
        /\ Len(op[w].agent.capabilities) > 0

----------------------------------------------------------------------------
(* update and delete racing: termination.                                  *)

(* Two sessions, each of which calls update or delete once. *)
RaceUpdate(w) == op[w].kind = "none" /\ CallUpdate(w)
RaceDelete(w) == op[w].kind = "none" /\ CallDelete(w)

NextRace ==
    \/ \E w \in Workers : RaceUpdate(w)
    \/ \E w \in Workers : RaceDelete(w)
    \/ \E w \in Workers : Execute(w)
    \/ \E w \in Workers : Fail(w)
    \/ \E w \in Workers : DeadlockDetected(w)
    \/ \E w \in Workers : Commit(w)

(* The next await of w's unit of work: the server executes the statement   *)
(* of a session that waits for no lock, and aborts a session of a lock     *)
(* cycle; the executor polls a future whose statement has completed.      *)
(* Every such step moves pc[w].                                            *)
Step(w) == Execute(w) \/ Fail(w) \/ DeadlockDetected(w) \/ Commit(w)

SpecRace ==
    InitRepoCallers /\ [][NextRace]_vars /\ \A w \in Workers : WF_pc(Step(w))

C34_CyclesAreBroken ==
    \A w \in Workers :
        (Waiting(w) /\ \A v \in Workers : tx[v] # EmptyTx => Waiting(v)) =>
            ENABLED DeadlockDetected(w)

----------------------------------------------------------------------------
(* What update returns against what it stored.                             *)

(* update(agent) of w has committed and nothing was written to the id      *)
(* since.                                                                  *)
UpdatedLast(w) ==
    /\ Finished(w, "update") /\ result[w].ok
    /\ Last(hist[op[w].id]).op = "update"
    /\ Last(hist[op[w].id]).since = seen[w]["call"]
    /\ Last(hist[op[w].id]).arg = Some(op[w].agent)

(* find_by_id(id) with no write in between: all four queries read the     *)
(* committed rows.                                                         *)
FindAfterwards(id) == SnapshotOf(Slice(db, id))

(* The fields of the two aggregates other than the timestamps agree. *)
SameButTimestamps(a, f) ==
    /\ f.id = a.id /\ f.name = a.name /\ f.description = a.description
    /\ f.agent_type = a.agent_type /\ f.status = a.status
    /\ f.capabilities = Range(a.capabilities)
    /\ f.configuration = a.configuration
    /\ f.metadata = a.metadata

(* C38: the aggregate update(agent) returns equals the aggregate a         *)
(* find_by_id(agent.id) returns immediately afterwards, in every field,    *)
(* updated_at and created_at included.                                     *)
C38_UpdateReturnsWhatIsStored ==
    \A w \in Workers :
        UpdatedLast(w) =>
            LET f == FindAfterwards(op[w].id)
                a == result[w].v
            IN /\ f.ok /\ IsSome(f.v)
               /\ SameButTimestamps(a, Unwrap(f.v))
               /\ Unwrap(f.v).updated_at = a.updated_at
               /\ Unwrap(f.v).created_at = a.created_at

(* The part that holds: when the agent existed throughout the update, the  *)
(* two agree in every field but the timestamps, and the stored updated_at  *)
(* is later than the returned one.                                         *)
C38_SameButTimestamps ==
    \A w \in Workers :
        (UpdatedLast(w) /\ ExistedSinceCall(w)) =>
            LET f == FindAfterwards(op[w].id)
                a == result[w].v
            IN /\ f.ok /\ IsSome(f.v)
               /\ SameButTimestamps(a, Unwrap(f.v))
               /\ Unwrap(f.v).updated_at > a.updated_at

(* update returned an aggregate whose updated_at and created_at are not    *)
(* the stored ones.                                                        *)
C38_TimestampsDiffer ==
    \E w \in Workers :
        /\ UpdatedLast(w) /\ ExistedSinceCall(w)
        /\ IsSome(FindAfterwards(op[w].id).v)
        /\ Unwrap(FindAfterwards(op[w].id).v).updated_at # result[w].v.updated_at
        /\ Unwrap(FindAfterwards(op[w].id).v).created_at # result[w].v.created_at

----------------------------------------------------------------------------
(* What a transition of a stored task leaves alone.                        *)

Transitions ==
    {"start_task", "complete_task", "fail_task", "cancel_task", "prioritize_task"}

(* The step is the task_repo.update of a transition of the task id. *)
TransitionSaved(id) ==
    \E w \in Workers :
        /\ tpc[w] = "save" /\ tpc'[w] = "idle"
        /\ top[w].kind \in Transitions /\ top[w].id = id

PrioritizeSaved(id) ==
    \E w \in Workers :
        /\ tpc[w] = "save" /\ tpc'[w] = "idle"
        /\ top[w].kind = "prioritize_task" /\ top[w].id = id

(* The fields that are not lifecycle fields. *)
SameIdentity(old, new) ==
    /\ new.id = old.id /\ new.agent_id = old.agent_id
    /\ new.name = old.name /\ new.description = old.description
    /\ new.task_type = old.task_type /\ new.input_data = old.input_data

(* C35: start_task, complete_task, fail_task, cancel_task and              *)
(* prioritize_task on an existing task leave its stored id, agent_id,      *)
(* name, description, task_type and input_data unchanged, and its priority *)
(* too unless the transition is prioritize_task.                           *)
C35_TransitionsKeepIdentity ==
    [][\A id \in TaskIds :
          IF IsSome(tasks[id]) /\ TransitionSaved(id)
          THEN IF IsSome(tasks'[id])
               THEN /\ SameIdentity(Unwrap(tasks[id]), Unwrap(tasks'[id]))
                    /\ IF PrioritizeSaved(id) THEN TRUE
                       ELSE Unwrap(tasks'[id]).priority = Unwrap(tasks[id]).priority
               ELSE FALSE
          ELSE TRUE]_vars

(* The part that holds: a transition keeps the id of the stored task and   *)
(* removes no row.                                                         *)
C35_TransitionsKeepId ==
    [][\A id \in TaskIds :
          IF IsSome(tasks[id]) /\ TransitionSaved(id)
          THEN IF IsSome(tasks'[id])
               THEN Unwrap(tasks'[id]).id = Unwrap(tasks[id]).id
               ELSE FALSE
          ELSE TRUE]_vars

(* A task created for a stored agent with name "task" and priority High    *)
(* is stored, after start_task, with the service's agent_id, name,         *)
(* description, input_data and priority.                                   *)
C35_StoredTaskRewritten ==
    \E w \in Workers :
        /\ tpc[w] = "idle" /\ top[w].kind = "start_task" /\ tres[w].ok
        /\ ttrace[w][1].ret # None
        /\ Unwrap(ttrace[w][1].ret).name = "task"
        /\ Unwrap(ttrace[w][1].ret).agent_id \in AgentIds
        /\ Unwrap(ttrace[w][1].ret).priority = "High"
        /\ tasks[top[w].id] = Some(MockTaskService_start_task(top[w].id))
        /\ Unwrap(tasks[top[w].id]).agent_id \notin AgentIds
        /\ Unwrap(tasks[top[w].id]).priority = "Normal"

----------------------------------------------------------------------------
(* Tasks and the agents that own them: the task use case over a task       *)
(* repository that keeps its rows, next to delete_agent of the agent use   *)
(* case over the same agent repository.                                    *)

(* Two requests to the task use case and one delete_agent. *)
InitOwnership ==
    /\ InitRepo /\ InitTaskIdle /\ InitLearn /\ InitAgentIdle
    /\ tcalls = MaxTaskCalls - 2 /\ acalls = MaxAgentCalls - 1
    /\ task_repo = "store" /\ learning_repo = "mock" /\ agent_repo = "sqlx"

NextOwnership ==
    \/ \E w \in Workers : create_task(w)
    \/ \E w \in Workers : start_task(w)
    \/ \E w \in Workers : delete_agent(w)
    \/ \E w \in Workers : TaskFindAgent(w)
    \/ \E w \in Workers : TaskFind(w)
    \/ \E w \in Workers : TaskService(w)
    \/ \E w \in Workers : TaskSave(w)
    \/ \E w \in Workers : AgentFind(w)
    \/ \E w \in Workers : AgentFound(w)
    \/ \E w \in Workers : AgentSave(w)
    \/ \E w \in Workers : AgentSaved(w)
    \/ \E w \in Workers : Execute(w)
    \/ \E w \in Workers : Commit(w)
    \/ \E w \in Workers : Query(w)

SpecOwnership == InitOwnership /\ [][NextOwnership]_vars

(* The agent a stored task names is stored. *)
Owned(t) == t.agent_id \in AgentIds /\ IsSome(db.agents[t.agent_id])

(* create_task of w found no agent. *)
NoAgentFound(w) ==
    /\ top[w].kind = "create_task"
    /\ Len(ttrace[w]) >= 1
    /\ ttrace[w][1] = Called("agent_repo.find_by_id", Ok(None))

(* create_task for an agent_id without a stored agent returns NotFound     *)
(* and has called neither the task service nor the repository's create.    *)
C36_CreateTaskGate ==
    \A w \in Workers :
        NoAgentFound(w) =>
            /\ tpc[w] = "idle"
            /\ tres[w] = Err(NotFound("Agent"), UseCaseError)
            /\ Len(ttrace[w]) = 1

(* C36: after any sequence of create_task, task transitions and            *)
(* delete_agent, the agent_id of every stored task is the id of a stored   *)
(* agent; and create_task for an agent_id without a stored agent fails     *)
(* with NotFound without calling the task service or the repository's      *)
(* create.                                                                 *)
C36_TaskOwnershipIntegrity ==
    /\ \A id \in TaskIds : IsSome(tasks[id]) => Owned(Unwrap(tasks[id]))
    /\ C36_CreateTaskGate

(* delete_agent has removed the agent of a stored task. *)
C36_OwnerDeleted ==
    \E id \in TaskIds :
        /\ IsSome(tasks[id])
        /\ Unwrap(tasks[id]).agent_id \in AgentIds
        /\ ~IsSome(db.agents[Unwrap(tasks[id]).agent_id])
        /\ \E w \in Workers :
            /\ apc[w] = "idle" /\ aop[w].kind = "delete_agent" /\ ares[w].ok
            /\ aop[w].id = Unwrap(tasks[id]).agent_id

(* start_task has stored a task under an agent_id no agent has. *)
C36_OwnerReplaced ==
    \E w \in Workers :
        /\ tpc[w] = "idle" /\ top[w].kind = "start_task" /\ tres[w].ok
        /\ IsSome(tasks[top[w].id])
        /\ Unwrap(tasks[top[w].id]).agent_id \notin AgentIds

C36_NoAgentNoTask ==
    \E w \in Workers :
        /\ NoAgentFound(w) /\ tpc[w] = "idle"
        /\ tasks = [i \in TaskIds |-> None]

====
